---------------------------- MODULE Spec2Model ----------------------------
(***************************************************************************)
(* A model of bevy_ecs_tiled's world chunking (src/src/world/mod.rs), tile *)
(* layer materialisation (src/src/loader.rs) and map asset loading         *)
(* (src/src/map/asset.rs, src/src/loader.rs).                              *)
(*                                                                         *)
(* Three specifications share the module:                                  *)
(*   Spec       the world systems: process_loaded_worlds, world_chunking,  *)
(*              handle_world_events, with cameras moved by the application *)
(*   SpecTiles  load_finite_tiles / load_infinite_tiles on a drawn layer   *)
(*   SpecLoader the asset loaders' load on a drawn document                *)
(***************************************************************************)
EXTENDS Integers, Sequences, FiniteSets, Bags, TLC

VARIABLES
    \* ---- world systems (src/src/world/mod.rs) ----
    maps,              \* TiledWorld.maps: sequence of child rectangles
    chunking,          \* TiledWorldSettings.chunking: << >> or << half extent >>
    layer_positioning, \* TiledMapSettings.layer_positioning
    translation,       \* the world entity's Transform.translation (x, y)
    global_translation, \* its GlobalTransform's translation (x, y)
    world_alive,       \* the world entity exists
    handle_changed,    \* Changed<TiledWorldHandle> is pending for the entity
    respawn,           \* the entity carries RespawnTiledWorld
    marker,            \* the entity carries TiledWorldMarker
    load_state,        \* recursive dependency load state of the world asset
    asset_present,     \* Assets<TiledWorld> holds the asset of the handle
    spawned_maps,      \* TiledWorldStorage.spawned_maps: index -> entity
    map_entities,      \* live child map entities: records [id, idx]
    cameras,           \* camera entities: a bag of [pos, changed]
    created_events,    \* number of TiledWorldCreated events sent
    panicked,          \* a system aborted
    last_op,           \* the system or application step that ran last
    last_commands,     \* entity commands issued by the step that ran last
    \* ---- tile layer materialisation (src/src/loader.rs) ----
    tiled_map,         \* the TiledMap asset: size, texture bindings, offsets
    layer,             \* the tile layer handed to the materialiser
    tile_storage,      \* what the materialiser returned last
    storages,          \* tileset index -> what it returned first
    \* ---- asset loaders ----
    document,          \* the bytes / parse outcome handed to load
    load_result,       \* what load returned and what it requested
    resource,          \* a BytesResourceReader and the path it is asked for
    read_result,       \* what read_from returned
    \* ---- several world instances (src/src/world/mod.rs) ----
    instances,         \* instance -> its asset, settings, markers, spawned_maps
    instance_children, \* live child map entities: [id, idx, owner]
    \* ---- process_loaded_maps (src/src/loader.rs) ----
    map_asset,         \* the TiledMap asset of the map entity
    layer_storage,     \* TiledLayersStorage.storage: layer index -> entity
    layer_entities,    \* live layer entities: [id, tileset_index, layer_index, load]
    map_loads          \* number of load_map runs so far

worldVars == << maps, chunking, layer_positioning, translation,
                global_translation, world_alive, handle_changed, respawn,
                marker, load_state, asset_present, spawned_maps,
                map_entities, cameras, created_events, panicked, last_op,
                last_commands >>
tileVars == << tiled_map, layer, tile_storage, storages >>
loaderVars == << document, load_result, resource, read_result >>
instanceVars == << instances, instance_children >>
mapVars == << map_asset, layer_storage, layer_entities, map_loads >>
vars == << worldVars, tileVars, loaderVars, instanceVars, mapVars >>

None == "None"
NotRun == "NotRun"

(***************************************************************************)
(* Bounds of the model.                                                    *)
(***************************************************************************)
MaxCameras == 2
MaxEntities == 2
MaxEvents == 2

(***************************************************************************)
(* World assets the model draws from.  Coordinates are even so that        *)
(* world_rect.max / 2.0 is exact.                                          *)
(***************************************************************************)
Rect(x0, y0, x1, y1) == [min |-> << x0, y0 >>, max |-> << x1, y1 >>]

WorldAssets ==
    { << >>,
      << Rect(0, 0, 10, 10), Rect(20, 20, 30, 30) >> }

\* Option<Vec2> as a sequence: << >> is None, << r >> is Some(Vec2::splat(r)).
NoChunking == << >>
ChunkingSettings == { NoChunking, << 5 >> }
LayerPositionings == { "TiledOffset", "Centered" }
InitTranslations == { << 0, 0 >> }
CameraPositions == { << 5, 5 >>, << 25, 25 >> }

Max2(a, b) == IF a >= b THEN a ELSE b
Min2(a, b) == IF a <= b THEN a ELSE b

RECURSIVE MaxCorner(_)
\* TiledWorld.world_rect.max: the maximum of all children's max corners.
MaxCorner(rects) ==
    IF rects = << >> THEN << 0, 0 >>
    ELSE LET r == Head(rects)
             m == MaxCorner(Tail(rects))
         IN << Max2(r.max[1], m[1]), Max2(r.max[2], m[2]) >>

(***************************************************************************)
(* Geometry: Aabb2d::new, Aabb2d::intersects, for_each_map.                *)
(***************************************************************************)
\* Aabb2d::new(center, half_size)
AabbNew(center, half) ==
    [min |-> << center[1] - half, center[2] - half >>,
     max |-> << center[1] + half, center[2] + half >>]

\* IntersectsVolume for Aabb2d: closed boxes, touching counts.
Intersects(a, b) ==
    /\ a.min[1] <= b.max[1] /\ a.max[1] >= b.min[1]
    /\ a.min[2] <= b.max[2] /\ a.max[2] >= b.min[2]

\* world_isometry.transform_point for a transform without rotation.
TransformPoint(t, p) == << p[1] + t[1], p[2] + t[2] >>

\* Aabb2d::from_point_cloud over the four transformed corners.
MapAabb(t, rect) ==
    LET pts == { TransformPoint(t, << rect.min[1], rect.min[2] >>),
                 TransformPoint(t, << rect.min[1], rect.max[2] >>),
                 TransformPoint(t, << rect.max[1], rect.max[2] >>),
                 TransformPoint(t, << rect.max[1], rect.min[2] >>) }
        xs == { p[1] : p \in pts }
        ys == { p[2] : p \in pts }
        lo(S) == CHOOSE v \in S : \A w \in S : v <= w
        hi(S) == CHOOSE v \in S : \A w \in S : v >= w
    IN [min |-> << lo(xs), lo(ys) >>, max |-> << hi(xs), hi(ys) >>]


(***************************************************************************)
(* Entities and TiledWorldStorage.spawned_maps (a HashMap<usize, Entity>). *)
(***************************************************************************)
EmptyMap == [i \in {} |-> 0]
NoCommands == [spawned |-> << >>, despawned |-> {}, created |-> << >>]

EntityIdsOf(live) == { e.id : e \in live }

\* commands.spawn(..).id(): an entity index that is not in use.
FreshEntity(live) ==
    CHOOSE e \in 1 .. (Cardinality(live) + 1) :
        /\ e \notin EntityIdsOf(live)
        /\ \A f \in 1 .. (Cardinality(live) + 1) :
               f \notin EntityIdsOf(live) => e <= f

\* HashMap::insert: an existing key's value is replaced.
MapInsert(m, k, v) ==
    [i \in DOMAIN m \cup {k} |-> IF i = k THEN v ELSE m[i]]

\* HashMap::remove over a set of keys.
MapRemoveAll(m, ks) == [i \in DOMAIN m \ ks |-> m[i]]

MapValues(m) == { m[i] : i \in DOMAIN m }

SeqElems(s) == { s[i] : i \in 1 .. Len(s) }

RECURSIVE SetToSeq(_)
\* The elements of a set in the order an iterator yields them.
SetToSeq(S) ==
    IF S = {} THEN << >>
    ELSE LET x == CHOOSE y \in S : TRUE IN << x >> \o SetToSeq(S \ {x})

(***************************************************************************)
(* world_chunking, src/src/world/mod.rs:55-172.                            *)
(***************************************************************************)
\* A camera entity as camera_query sees it: its Transform's translation and
\* whether the Transform was written since world_chunking last ran.  The query
\* yields transforms, not entities, so the cameras are kept as a bag.
Camera(pos, changed) == [pos |-> pos, changed |-> changed]

RECURSIVE ChangedCameraBoxes(_, _)
\* camera_query: Query<&Transform, (With<Camera>, Changed<Transform>)>,
\* mapped to Aabb2d::new(translation.xy, chunking): one box per camera of
\* each kind in kinds whose Transform changed.
ChangedCameraBoxes(kinds, half) ==
    IF kinds = << >> THEN << >>
    ELSE (IF Head(kinds).changed
          THEN [i \in 1 .. CopiesIn(Head(kinds), cameras) |->
                    AabbNew(Head(kinds).pos, half)]
          ELSE << >>) \o ChangedCameraBoxes(Tail(kinds), half)

\* The cameras in the order camera_query.iter() yields them.
CameraKinds == SetToSeq(BagToSet(cameras))

RECURSIVE PushPerCamera(_, _, _)
\* for c in cameras.iter() { if aabb.intersects(c) { visible_maps.push(idx) } }
PushPerCamera(boxes, idx, aabb) ==
    IF boxes = << >> THEN << >>
    ELSE (IF Intersects(aabb, Head(boxes)) THEN << idx >> ELSE << >>)
             \o PushPerCamera(Tail(boxes), idx, aabb)

RECURSIVE VisibleMaps(_, _, _, _)
\* for_each_map(tiled_world, world_transform, |idx, aabb| ...), from idx on.
VisibleMaps(world_maps, t, boxes, idx) ==
    IF idx >= Len(world_maps) THEN << >>
    ELSE PushPerCamera(boxes, idx, MapAabb(t, world_maps[idx + 1]))
             \o VisibleMaps(world_maps, t, boxes, idx + 1)

RECURSIVE ToSpawnChunking(_, _)
\* for idx in visible_maps.iter() { if !contains_key(idx) { to_spawn.push } }
ToSpawnChunking(visible, storage) ==
    IF visible = << >> THEN << >>
    ELSE (IF Head(visible) \notin DOMAIN storage
          THEN << Head(visible) >> ELSE << >>)
             \o ToSpawnChunking(Tail(visible), storage)

\* for (idx, _) in spawned_maps.iter() { if !visible.any(..) { to_remove.push } }
ToRemove(visible, storage) ==
    { idx \in DOMAIN storage : idx \notin SeqElems(visible) }

RECURSIVE RangeSeq(_, _)
\* The range lo .. hi-1 in iteration order.
RangeSeq(lo, hi) ==
    IF lo >= hi THEN << >> ELSE << lo >> \o RangeSeq(lo + 1, hi)

\* for idx in 0..tiled_world.maps.len() - 1 { to_spawn.push(idx) }
ToSpawnNoChunking(world_maps) == RangeSeq(0, Len(world_maps) - 1)

\* usize subtraction maps.len() - 1 underflows for an empty world: the debug
\* build panics, the release build wraps to usize::MAX and the loop exhausts
\* memory.  Either way the system aborts.
NoChunkingUnderflow(world_maps) == Len(world_maps) = 0

RECURSIVE SpawnLoop(_, _, _, _, _)
\* for idx in to_spawn { maps.get(idx) else continue; spawn; insert(idx, e) }
SpawnLoop(world_maps, to_spawn, storage, live, log) ==
    IF to_spawn = << >>
    THEN [storage |-> storage, live |-> live, spawned |-> log]
    ELSE LET idx == Head(to_spawn) IN
         IF idx >= Len(world_maps)
         THEN SpawnLoop(world_maps, Tail(to_spawn), storage, live, log)
         ELSE LET e == FreshEntity(live) IN
              SpawnLoop(world_maps, Tail(to_spawn),
                        MapInsert(storage, idx, e),
                        live \cup { [id |-> e, idx |-> idx] },
                        Append(log, << idx, e >>))

\* A world_query entry is evaluated whatever the load state of its asset.
EvaluatedWhileLoading == world_alive /\ marker

\* The world is in world_query (With<TiledWorldMarker>) and its asset is
\* recursively loaded and present in Assets<TiledWorld>.
Evaluated == world_alive /\ marker /\ load_state = "Loaded" /\ asset_present

\* The to_spawn and to_remove lists of one pass (lines 96-138).  The world's
\* transform in world_query is its GlobalTransform.
PassToSpawn ==
    IF chunking # NoChunking
    THEN ToSpawnChunking(
             VisibleMaps(maps, global_translation,
                         ChangedCameraBoxes(CameraKinds, chunking[1]), 0),
             spawned_maps)
    ELSE IF DOMAIN spawned_maps = {} THEN ToSpawnNoChunking(maps) ELSE << >>

PassToRemove ==
    IF chunking # NoChunking
    THEN ToRemove(
             VisibleMaps(maps, global_translation,
                         ChangedCameraBoxes(CameraKinds, chunking[1]), 0),
             spawned_maps)
    ELSE {}

CamerasSeen ==
    LET positions == { k.pos : k \in BagToSet(cameras) }
    IN [k \in { Camera(pos, FALSE) : pos \in positions } |->
            CopiesIn(Camera(k.pos, TRUE), cameras) + CopiesIn(k, cameras)]

WorldChunking ==
    /\ ~panicked
    /\ last_op' = "world_chunking"
    /\ cameras' = CamerasSeen
    /\ UNCHANGED << maps, chunking, layer_positioning, translation, global_translation, world_alive,
                    handle_changed, respawn, marker, load_state, asset_present, created_events >>
    /\ IF ~Evaluated
       THEN /\ UNCHANGED << spawned_maps, map_entities, panicked >>
            /\ last_commands' = NoCommands
       ELSE IF chunking = NoChunking /\ DOMAIN spawned_maps = {}
                               /\ NoChunkingUnderflow(maps)
       THEN /\ panicked' = TRUE
            /\ UNCHANGED << spawned_maps, map_entities >>
            /\ last_commands' = NoCommands
       ELSE LET gone == { spawned_maps[i] : i \in PassToRemove }
                kept == MapRemoveAll(spawned_maps, PassToRemove)
                live == { e \in map_entities : e.id \notin gone }
                out  == SpawnLoop(maps, PassToSpawn, kept, live, << >>)
            IN /\ Cardinality(live) + Len(PassToSpawn) <= MaxEntities
               /\ spawned_maps' = out.storage
               /\ map_entities' = out.live
               /\ last_commands' = [spawned |-> out.spawned, despawned |-> gone,
                                     created |-> << >>]
               /\ UNCHANGED panicked

(***************************************************************************)
(* process_loaded_worlds, src/src/world/mod.rs:176-259.                    *)
(***************************************************************************)
\* remove_maps: despawn every recorded child, clear the table.
RemoveMapsLive(storage, live) ==
    { e \in live : e.id \notin MapValues(storage) }

\* commands.entity(world_entity).despawn_recursive(): the world entity and
\* every child map entity parented to it go.
DespawnWorld ==
    /\ world_alive' = FALSE
    /\ marker' = FALSE
    /\ respawn' = FALSE
    /\ spawned_maps' = EmptyMap
    /\ map_entities' = {}

\* The entity id and the asset id of the world the model follows, and the id
\* of another world asset.
WorldEntity == "world_entity"
WorldAssetId == "world_asset"
OtherAssetId == "other_asset"

\* A Failed load keeps the entity and asks for another try.
OnLoadFailedRetries ==
    /\ respawn' = TRUE
    /\ last_commands' = NoCommands
    /\ UNCHANGED << translation, world_alive, marker, spawned_maps,
                    map_entities, created_events >>

\* if let RecursiveDependencyLoadState::Failed(_) = load_state {
\*     commands.entity(world_entity).despawn_recursive(); }
OnLoadFailed ==
    /\ DespawnWorld
    /\ last_commands' =
           [spawned |-> << >>, despawned |-> EntityIdsOf(map_entities),
            created |-> << >>]
    /\ UNCHANGED << translation, created_events >>

\* TiledWorldCreated { entity: world_entity, asset_id: world_handle.0.id() }
TiledWorldCreated == [entity |-> WorldEntity, asset_id |-> WorldAssetId]

\* asset_server.get_recursive_dependency_load_state(&world_handle.0): None
\* for a handle the asset server does not track, else NotLoaded or Loading
\* ("Loading"), Loaded, Failed.  A handle is tracked or not for good.
\* The model's load_state is one of "Untracked", "Loading", "Loaded", "Failed".

\* A pass that does not ask again for a world that is still loading.
OnNotLoadedYetForgets ==
    /\ last_commands' = NoCommands
    /\ UNCHANGED << translation, world_alive, respawn, marker, spawned_maps,
                    map_entities, created_events >>

\* If not fully loaded yet, insert the 'Respawn' marker so we will try to
\* load it at next frame: commands.entity(world_entity)
\*                            .insert(RespawnTiledWorld)
OnNotLoadedYet ==
    /\ respawn' = TRUE
    /\ last_commands' = NoCommands
    /\ UNCHANGED << translation, world_alive, marker, spawned_maps,
                    map_entities, created_events >>

\* A world_query without its filter: every world entity, every pass.
QueriedAlways == world_alive

\* The world is in world_query: Or<(Changed<TiledWorldHandle>,
\* With<RespawnTiledWorld>)>.
Queried == world_alive /\ (handle_changed \/ respawn)

ProcessLoadedWorlds ==
    /\ ~panicked
    /\ (Queried /\ load_state = "Loaded" /\ asset_present)
           => created_events < MaxEvents
    /\ last_op' = "process_loaded_worlds"
    /\ handle_changed' = FALSE
    /\ UNCHANGED << maps, chunking, layer_positioning, global_translation,
                    load_state, asset_present, cameras, panicked >>
    /\ IF ~Queried \/ load_state = "Untracked"
       THEN /\ UNCHANGED << translation, world_alive, respawn, marker,
                            spawned_maps, map_entities, created_events >>
            /\ last_commands' = NoCommands
       ELSE IF load_state = "Failed"
       THEN OnLoadFailed
       ELSE IF load_state = "Loading"
       THEN OnNotLoadedYet
       ELSE IF ~asset_present
       \* let Some(tiled_world) = worlds.get(&world_handle.0) else {
       \*     commands.entity(world_entity).despawn_recursive(); continue; }
       THEN /\ DespawnWorld
            /\ last_commands' =
                   [spawned |-> << >>, despawned |-> EntityIdsOf(map_entities),
                    created |-> << >>]
            /\ UNCHANGED << translation, created_events >>
       ELSE /\ map_entities' = RemoveMapsLive(spawned_maps, map_entities)
            /\ spawned_maps' = EmptyMap
            /\ last_commands' =
                   [spawned |-> << >>, despawned |-> MapValues(spawned_maps),
                    created |-> << TiledWorldCreated >>]
            /\ translation' =
                   IF layer_positioning = "Centered"
                   THEN << translation[1] - (MaxCorner(maps)[1] \div 2),
                           translation[2] - (MaxCorner(maps)[2] \div 2) >>
                   ELSE translation
            /\ marker' = TRUE
            /\ respawn' = FALSE
            /\ created_events' = created_events + 1
            /\ UNCHANGED world_alive

(***************************************************************************)
(* handle_world_events, src/src/world/mod.rs:262-288.  One run reads every *)
(* pending event and only queues commands; the queue is applied, in order, *)
(* after the run.  st is the world entity as the commands applied so far   *)
(* have left it.                                                           *)
(***************************************************************************)
\* AssetEvent<TiledWorld>: Modified { id } and Removed { id }.
AssetEvents ==
    [kind : { "Modified", "Removed" }, id : { WorldAssetId, OtherAssetId }]

\* What one run reads: one event, or a Modified and a Removed event for the
\* world's asset in either order.
AssetEventBatches ==
    [1 .. 1 -> AssetEvents]
        \cup { << [kind |-> k[1], id |-> WorldAssetId],
                  [kind |-> k[2], id |-> WorldAssetId] >> :
                    k \in { << "Modified", "Removed" >>,
                            << "Removed", "Modified" >> } }

\* A Removed event that despawns the entity only once its asset is loaded.
OnRemovedIfLoaded(st) ==
    IF ~st.world_alive \/ load_state # "Loaded" THEN st
    ELSE [st EXCEPT !.world_alive = FALSE, !.marker = FALSE,
                    !.respawn = FALSE, !.spawned_maps = EmptyMap,
                    !.map_entities = {},
                    !.despawned = @ \cup EntityIdsOf(st.map_entities)]

\* AssetEvent::Removed { id } => commands.entity(world_entity)
\*                                   .despawn_recursive()
\* Despawning an entity that is gone already only logs a warning.
OnRemoved(st) ==
    IF ~st.world_alive THEN st
    ELSE [st EXCEPT !.world_alive = FALSE, !.marker = FALSE,
                    !.respawn = FALSE, !.spawned_maps = EmptyMap,
                    !.map_entities = {},
                    !.despawned = @ \cup EntityIdsOf(st.map_entities)]

\* AssetEvent::Modified { id } => commands.entity(world_entity)
\*                                    .insert(RespawnTiledWorld)
\* Inserting into an entity that an earlier command of the queue despawned
\* aborts (error B0003).
OnModified(st) ==
    IF ~st.world_alive THEN [st EXCEPT !.panicked = TRUE]
    ELSE [st EXCEPT !.respawn = TRUE]

RECURSIVE WorldEventsLoop(_, _)
\* for event in world_events.read() { match event { .. } }: world_query
\* yields the world entity for every event of the run, since the run itself
\* despawns nothing.
WorldEventsLoop(events, st) ==
    IF events = << >> \/ st.panicked THEN st
    ELSE LET event == Head(events) IN
         WorldEventsLoop(Tail(events),
                         IF event.id # WorldAssetId THEN st
                         ELSE IF event.kind = "Modified" THEN OnModified(st)
                         ELSE OnRemoved(st))

HandleWorldEvents(events) ==
    /\ ~panicked
    /\ last_op' = "handle_world_events"
    /\ UNCHANGED << maps, chunking, layer_positioning, translation,
                    global_translation, handle_changed, load_state,
                    asset_present, cameras, created_events >>
    /\ IF ~world_alive
       THEN /\ UNCHANGED << world_alive, respawn, marker, spawned_maps,
                            map_entities, panicked >>
            /\ last_commands' = NoCommands
       ELSE LET out == WorldEventsLoop(events,
                           [world_alive |-> TRUE, respawn |-> respawn,
                            marker |-> marker, spawned_maps |-> spawned_maps,
                            map_entities |-> map_entities, despawned |-> {},
                            panicked |-> FALSE])
            IN /\ world_alive' = out.world_alive
               /\ respawn' = out.respawn
               /\ marker' = out.marker
               /\ spawned_maps' = out.spawned_maps
               /\ map_entities' = out.map_entities
               /\ panicked' = out.panicked
               /\ last_commands' =
                      [spawned |-> << >>, despawned |-> out.despawned,
                       created |-> << >>]

(***************************************************************************)
(* The environment: the asset server, transform propagation and the        *)
(* application's cameras.  The asset server is followed while the world    *)
(* entity exists.                                                          *)
(***************************************************************************)
\* A load ends: a loaded asset is in Assets<TiledWorld>.
AssetLoadEnds(state) ==
    /\ ~panicked
    /\ world_alive
    /\ load_state = "Loading"
    /\ load_state' = state
    /\ asset_present' = IF state = "Loaded" THEN TRUE ELSE asset_present
    /\ last_op' = "asset_server"
    /\ last_commands' = NoCommands
    /\ UNCHANGED << maps, chunking, layer_positioning, translation,
                    global_translation, world_alive, handle_changed, respawn,
                    marker, spawned_maps, map_entities, cameras,
                    created_events, panicked >>

\* The asset server loads the world asset or one of its maps again (a changed
\* file): the recursive dependency load state is Loading until that ends.
\* An asset that left Assets<TiledWorld> is not loaded again.
AssetReloads ==
    /\ ~panicked
    /\ world_alive
    /\ load_state \in { "Loaded", "Failed" }
    /\ load_state = "Loaded" => asset_present
    /\ load_state' = "Loading"
    /\ last_op' = "asset_server"
    /\ last_commands' = NoCommands
    /\ UNCHANGED << maps, chunking, layer_positioning, translation,
                    global_translation, world_alive, handle_changed, respawn,
                    marker, asset_present, spawned_maps, map_entities,
                    cameras, created_events, panicked >>

\* The asset leaves Assets<TiledWorld> (it is removed, or its last strong
\* handle is dropped) while the asset server reports it loaded: what
\* worlds.get(&world_handle.0) answers with None for.
AssetDropped ==
    /\ ~panicked
    /\ world_alive
    /\ load_state = "Loaded"
    /\ asset_present
    /\ asset_present' = FALSE
    /\ last_op' = "asset_server"
    /\ last_commands' = NoCommands
    /\ UNCHANGED << maps, chunking, layer_positioning, translation,
                    global_translation, world_alive, handle_changed, respawn,
                    marker, load_state, spawned_maps, map_entities, cameras,
                    created_events, panicked >>

\* Transform propagation (PostUpdate, not ordered against world_chunking):
\* the GlobalTransform of the world entity, which has no parent, becomes its
\* Transform.
PropagateTransforms ==
    /\ ~panicked
    /\ world_alive
    /\ global_translation # translation
    /\ global_translation' = translation
    /\ UNCHANGED << maps, chunking, layer_positioning, translation,
                    world_alive, handle_changed, respawn, marker, load_state,
                    asset_present, spawned_maps, map_entities, cameras,
                    created_events, panicked, last_op, last_commands >>

AppStep(cams) ==
    /\ ~panicked
    /\ cameras' = cams
    /\ last_op' = "app"
    /\ last_commands' = NoCommands
    /\ UNCHANGED << maps, chunking, layer_positioning, translation, global_translation, world_alive,
                    handle_changed, respawn, marker, load_state, asset_present, spawned_maps,
                    map_entities, created_events, panicked >>

\* A camera entity is spawned: a new Transform counts as changed.
SpawnCamera(p) ==
    /\ BagCardinality(cameras) < MaxCameras
    /\ AppStep(cameras (+) SetToBag({ Camera(p, TRUE) }))

\* The application writes the Transform of camera k.
MoveCamera(k, p) ==
    /\ BagIn(k, cameras)
    /\ AppStep((cameras (-) SetToBag({ k })) (+) SetToBag({ Camera(p, TRUE) }))

DespawnCamera(k) ==
    /\ BagIn(k, cameras)
    /\ AppStep(cameras (-) SetToBag({ k }))

(***************************************************************************)
(* Idle values of the variables a specification does not use.              *)
(***************************************************************************)
WorldIdle ==
    /\ maps = << >>
    /\ chunking = NoChunking
    /\ layer_positioning = "TiledOffset"
    /\ translation = << 0, 0 >>
    /\ global_translation = << 0, 0 >>
    /\ world_alive = FALSE
    /\ handle_changed = FALSE
    /\ respawn = FALSE
    /\ marker = FALSE
    /\ load_state = "Loading"
    /\ asset_present = FALSE
    /\ spawned_maps = EmptyMap
    /\ map_entities = {}
    /\ cameras = EmptyBag
    /\ created_events = 0
    /\ panicked = FALSE
    /\ last_op = "init"
    /\ last_commands = NoCommands

TilesIdle ==
    /\ tiled_map = [width |-> 0]
    /\ layer = [type |-> None]
    /\ tile_storage = [status |-> NotRun]
    /\ storages = EmptyMap

InstancesIdle ==
    /\ instances = EmptyMap
    /\ instance_children = {}

MapsIdle ==
    /\ map_asset = [tilesets |-> << >>, layers |-> << >>]
    /\ layer_storage = EmptyMap
    /\ layer_entities = {}
    /\ map_loads = 0

LoaderIdle ==
    /\ document = [read |-> None]
    /\ load_result = [status |-> NotRun]
    /\ resource = [reader |-> FALSE]
    /\ read_result = [status |-> NotRun]

(***************************************************************************)
(* Spec: a world entity spawned with a TiledWorldHandle.  The cameras are   *)
(* followed while the world entity exists.                                 *)
(***************************************************************************)
Init ==
    /\ maps \in WorldAssets
    /\ chunking \in ChunkingSettings
    /\ layer_positioning \in LayerPositionings
    /\ translation \in InitTranslations
    /\ global_translation = translation
    /\ world_alive = TRUE
    /\ handle_changed = TRUE
    /\ respawn = FALSE
    /\ marker = FALSE
    /\ load_state \in { "Untracked", "Loading" }
    /\ asset_present = FALSE
    /\ spawned_maps = EmptyMap
    /\ map_entities = {}
    /\ cameras = EmptyBag
    /\ created_events = 0
    /\ panicked = FALSE
    /\ last_op = "init"
    /\ last_commands = NoCommands
    /\ TilesIdle
    /\ LoaderIdle
    /\ InstancesIdle
    /\ MapsIdle

Next ==
    \/ (WorldChunking
            /\ UNCHANGED << tileVars, loaderVars, instanceVars, mapVars >>)
    \/ (ProcessLoadedWorlds
            /\ UNCHANGED << tileVars, loaderVars, instanceVars, mapVars >>)
    \/ (\E events \in AssetEventBatches :
            HandleWorldEvents(events)
                /\ UNCHANGED << tileVars, loaderVars, instanceVars, mapVars >>)
    \/ (\E state \in { "Loaded", "Failed" } :
            AssetLoadEnds(state)
                /\ UNCHANGED << tileVars, loaderVars, instanceVars, mapVars >>)
    \/ (AssetReloads /\ UNCHANGED << tileVars, loaderVars, instanceVars, mapVars >>)
    \/ (AssetDropped /\ UNCHANGED << tileVars, loaderVars, instanceVars, mapVars >>)
    \/ (PropagateTransforms
            /\ UNCHANGED << tileVars, loaderVars, instanceVars, mapVars >>)
    \/ (\E p \in CameraPositions :
            world_alive /\ SpawnCamera(p)
                /\ UNCHANGED << tileVars, loaderVars, instanceVars, mapVars >>)
    \/ (\E k \in BagToSet(cameras), p \in CameraPositions :
            world_alive /\ MoveCamera(k, p)
                /\ UNCHANGED << tileVars, loaderVars, instanceVars, mapVars >>)
    \/ (\E k \in BagToSet(cameras) :
            world_alive /\ DespawnCamera(k)
                /\ UNCHANGED << tileVars, loaderVars, instanceVars, mapVars >>)

Spec == Init /\ [][Next]_vars

(***************************************************************************)
(* SpecLive: the same world without cameras, with the schedule's promise   *)
(* that process_loaded_worlds runs again and again (it is in PreUpdate,    *)
(* src/src/world/mod.rs:37-52, which runs every frame).                    *)
(***************************************************************************)
NextLive ==
    \/ (WorldChunking
            /\ UNCHANGED << tileVars, loaderVars, instanceVars, mapVars >>)
    \/ (ProcessLoadedWorlds
            /\ UNCHANGED << tileVars, loaderVars, instanceVars, mapVars >>)
    \/ (\E events \in AssetEventBatches :
            HandleWorldEvents(events)
                /\ UNCHANGED << tileVars, loaderVars, instanceVars, mapVars >>)
    \/ (\E state \in { "Loaded", "Failed" } :
            AssetLoadEnds(state)
                /\ UNCHANGED << tileVars, loaderVars, instanceVars, mapVars >>)
    \/ (AssetReloads /\ UNCHANGED << tileVars, loaderVars, instanceVars, mapVars >>)
    \/ (AssetDropped /\ UNCHANGED << tileVars, loaderVars, instanceVars, mapVars >>)
    \/ (PropagateTransforms
            /\ UNCHANGED << tileVars, loaderVars, instanceVars, mapVars >>)

SpecLive ==
    /\ Init
    /\ [][NextLive]_vars
    /\ WF_vars(ProcessLoadedWorlds
                   /\ UNCHANGED << tileVars, loaderVars, instanceVars, mapVars >>)

(***************************************************************************)
(* Properties of the world systems.                                        *)
(***************************************************************************)
ChildIndices == 0 .. (Len(maps) - 1)
NoCameraPresent == BagToSet(cameras) = {}
PresentCameras == BagToSet(cameras)

\* The child's transformed bounding box meets the view box of a camera of the
\* scene, whether or not that camera moved since the last pass.
VisibleToSomeCamera(i) ==
    \E k \in PresentCameras :
        Intersects(MapAabb(translation, maps[i + 1]),
                   AabbNew(k.pos, chunking[1]))

\* C1: with a chunking radius, after every world_chunking pass over a fully
\* loaded world, child i is a key of spawned_maps iff its transformed
\* bounding box intersects the view box of at least one camera in the scene.
C1_SpawnedIffVisibleToSomeCamera ==
    (last_op = "world_chunking" /\ Evaluated /\ chunking # NoChunking)
        => \A i \in ChildIndices :
               (i \in DOMAIN spawned_maps) <=> VisibleToSomeCamera(i)

\* C2: without a chunking radius, after a world_chunking pass over a fully
\* loaded world every child index 0..N-1 is spawned, each exactly once, for
\* every N >= 0, and the pass does not abort.
C2_NoChunkingSpawnsEveryChild ==
    (last_op = "world_chunking" /\ Evaluated /\ chunking = NoChunking)
        => /\ ~panicked
           /\ DOMAIN spawned_maps = ChildIndices
           /\ \A i \in ChildIndices :
                  Cardinality({ e \in map_entities : e.idx = i }) = 1

ScenarioWorld == << Rect(0, 0, 10, 10), Rect(20, 20, 30, 30) >>
SingleCameraAt(p) ==
    /\ BagCardinality(cameras) = 1
    /\ \A k \in PresentCameras : k.pos = p

\* C3: children (0,0)-(10,10) and (20,20)-(30,30), identity transform, radius
\* 5, one camera: after a pass with the camera at (5,5) spawned_maps is
\* exactly {0}; after a pass with the camera at (25,25) it is exactly {1} and
\* child 0 has no live entity.
C3_ScenarioFollowsTheCamera ==
    (/\ last_op = "world_chunking" /\ Evaluated
     /\ maps = ScenarioWorld /\ translation = << 0, 0 >> /\ chunking = << 5 >>)
        => /\ SingleCameraAt(<< 5, 5 >>) => DOMAIN spawned_maps = {0}
           /\ SingleCameraAt(<< 25, 25 >>)
                  => /\ DOMAIN spawned_maps = {1}
                     /\ \A e \in map_entities : e.idx # 0

\* C4: with a chunking radius and no camera in the scene, a world_chunking
\* pass over a loaded world despawns every live child map entity of the
\* world and leaves spawned_maps empty, whatever was spawned before.
C4_NoCameraDespawnsAll ==
    [][(Evaluated /\ chunking # NoChunking /\ NoCameraPresent /\ WorldChunking)
          => /\ spawned_maps' = EmptyMap
             /\ map_entities' = {}
             /\ last_commands'.spawned = << >>]_vars

\* C5: every live child map entity is the value stored under its index in
\* spawned_maps and every value of spawned_maps is a live entity, so each
\* index has at most one live entity.
C5_OneLiveEntityPerIndex ==
    /\ \A e \in map_entities :
           e.idx \in DOMAIN spawned_maps /\ spawned_maps[e.idx] = e.id
    /\ \A i \in DOMAIN spawned_maps :
           [id |-> spawned_maps[i], idx |-> i] \in map_entities

\* C12: a process_loaded_worlds pass that finds the world's load state
\* Failed despawns the world entity together with its children, gives it no
\* TiledWorldMarker and sends no TiledWorldCreated; a despawned world stays
\* despawned, without marker, children or further events.
C12_FailedLoadDespawnsWorld ==
    /\ [][(/\ world_alive /\ (handle_changed \/ respawn)
           /\ load_state = "Failed"
           /\ ProcessLoadedWorlds)
              => /\ ~world_alive'
                 /\ ~marker'
                 /\ map_entities' = {}
                 /\ spawned_maps' = EmptyMap
                 /\ last_commands'.despawned = EntityIdsOf(map_entities)
                 /\ last_commands'.created = << >>
                 /\ created_events' = created_events]_vars
    /\ [][~world_alive
              => /\ ~world_alive'
                 /\ ~marker'
                 /\ map_entities' = {}
                 /\ created_events' = created_events]_vars

\* A world that had been built and had children was despawned with them by a
\* pass that found its load state Failed.
C12_Witness ==
    /\ last_op = "process_loaded_worlds"
    /\ load_state = "Failed"
    /\ ~world_alive
    /\ created_events > 0
    /\ last_commands.despawned # {}

\* C13: a process_loaded_worlds pass sends exactly one TiledWorldCreated, with
\* the world entity and the asset id, when the world is in its query and its
\* asset is loaded and present, and removes RespawnTiledWorld; every other pass and every other
\* system sends none; RespawnTiledWorld only comes back by a Modified event
\* or by a pass that finds the asset still loading.
C13_OneCreatedEventPerLoad ==
    /\ [][ProcessLoadedWorlds
              => IF /\ world_alive /\ (handle_changed \/ respawn)
                    /\ load_state = "Loaded" /\ asset_present
                 THEN /\ created_events' = created_events + 1
                      /\ last_commands'.created =
                             << [entity |-> WorldEntity,
                                 asset_id |-> WorldAssetId] >>
                      /\ marker'
                      /\ ~respawn'
                      /\ ~handle_changed'
                 ELSE /\ created_events' = created_events
                      /\ last_commands'.created = << >>]_vars
    /\ [][last_op' # "process_loaded_worlds"
              => /\ created_events' = created_events
                 /\ last_commands'.created = << >>]_vars
    /\ [][(~respawn /\ respawn')
              => \/ last_op' = "handle_world_events"
                 \/ /\ last_op' = "process_loaded_worlds"
                    /\ load_state = "Loading"
                    /\ handle_changed]_vars
    /\ [][handle_changed' => handle_changed]_vars

\* A second TiledWorldCreated was sent, for a world rebuilt after a Modified
\* event, and the pass after it found nothing to do.
C13_Witness ==
    /\ last_op = "process_loaded_worlds"
    /\ created_events = 2
    /\ last_commands.created = << >>
    /\ world_alive /\ marker /\ ~respawn /\ load_state = "Loaded"

\* C14: after a process_loaded_worlds pass that built the world (it sent
\* TiledWorldCreated), spawned_maps is empty and no child map entity of the
\* previous build is alive.
C14_RebuildLeavesNoOldChild ==
    (last_op = "process_loaded_worlds" /\ last_commands.created # << >>)
        => /\ spawned_maps = EmptyMap
           /\ last_commands.spawned = << >>
           /\ map_entities = {}

\* C15: a handle_world_events run that reads a Modified event does not abort;
\* when the run reads no Removed event for the world's asset it only adds
\* RespawnTiledWorld, and only if a Modified event has the world's asset id:
\* spawned_maps, the child entities, the transform and the marker stay; the
\* next process_loaded_worlds pass over the loaded world empties
\* spawned_maps, despawns the recorded children and builds the world again.
C15_ModifiedOnlyMarksForRespawn ==
    /\ [][\A events \in AssetEventBatches :
              (/\ \E n \in DOMAIN events : events[n].kind = "Modified"
               /\ HandleWorldEvents(events))
                  => /\ ~panicked'
                     /\ (\A n \in DOMAIN events :
                             events[n].kind = "Removed"
                                 => events[n].id # WorldAssetId)
                            => /\ respawn' =
                                      IF /\ world_alive
                                         /\ \E n \in DOMAIN events :
                                                events[n].id = WorldAssetId
                                      THEN TRUE ELSE respawn
                               /\ last_commands' = NoCommands
                               /\ spawned_maps' = spawned_maps
                               /\ map_entities' = map_entities
                               /\ translation' = translation
                               /\ world_alive' = world_alive
                               /\ marker' = marker
                               /\ handle_changed' = handle_changed
                               /\ created_events' = created_events]_vars
    /\ [][(world_alive /\ respawn /\ load_state = "Loaded" /\ asset_present
                       /\ ProcessLoadedWorlds)
              => /\ spawned_maps' = EmptyMap
                 /\ last_commands'.despawned = MapValues(spawned_maps)
                 /\ MapValues(spawned_maps) \cap EntityIdsOf(map_entities') = {}
                 /\ last_commands'.created # << >>
                 /\ marker'
                 /\ ~respawn']_vars

\* C16: a handle_world_events run that reads a Removed event whose id is the
\* world's asset id despawns the world entity and every child map entity,
\* whatever the load state, the chunking setting and the spawned set; a run
\* that reads no such event despawns nothing.
C16_RemovedDespawnsWorld ==
    [][\A events \in AssetEventBatches :
           HandleWorldEvents(events)
               => IF /\ world_alive
                     /\ \E n \in DOMAIN events :
                            /\ events[n].kind = "Removed"
                            /\ events[n].id = WorldAssetId
                  THEN /\ ~world_alive'
                       /\ map_entities' = {}
                       /\ spawned_maps' = EmptyMap
                       /\ last_commands'.despawned = EntityIdsOf(map_entities)
                  ELSE /\ last_commands'.despawned = {}
                       /\ UNCHANGED << world_alive, marker, spawned_maps,
                                       map_entities >>]_vars

\* A world whose asset is loading again was despawned with its children by a
\* Removed event.
C16_Witness ==
    /\ last_op = "handle_world_events"
    /\ ~world_alive
    /\ load_state = "Loading"
    /\ last_commands.despawned # {}

\* C26: while the load state of the world's asset is neither loaded nor
\* failed, a process_loaded_worlds pass over the world (re)inserts
\* RespawnTiledWorld, and no pass adds TiledWorldMarker, sends
\* TiledWorldCreated, or changes the world's children; world_chunking spawns
\* and despawns no child and leaves spawned_maps unchanged.
C26_LoadingWorldStaysLoading ==
    /\ [][(load_state = "Loading" /\ ProcessLoadedWorlds)
              => /\ (world_alive /\ (handle_changed \/ respawn)) => respawn'
                 /\ marker' = marker
                 /\ world_alive' = world_alive
                 /\ created_events' = created_events
                 /\ last_commands' = NoCommands
                 /\ spawned_maps' = spawned_maps
                 /\ map_entities' = map_entities
                 /\ load_state' = "Loading"]_vars
    /\ [][(load_state = "Loading" /\ WorldChunking)
              => /\ spawned_maps' = spawned_maps
                 /\ map_entities' = map_entities
                 /\ last_commands'.spawned = << >>
                 /\ last_commands'.despawned = {}
                 /\ marker' = marker
                 /\ created_events' = created_events]_vars

\* A world that had been built and has children is asked to respawn while
\* its asset loads again: the pass has put RespawnTiledWorld back, the
\* children and the marker of the earlier build are still there.
C26_Witness ==
    /\ last_op = "process_loaded_worlds"
    /\ load_state = "Loading"
    /\ world_alive /\ respawn /\ marker
    /\ map_entities # {}
    /\ \E k \in BagToSet(cameras) : k.changed

\* C27: a world that process_loaded_worlds finds still loading is in its
\* query again at the next pass; and a live world that is not marked loaded
\* yet, or is asked to respawn, while its asset's load state is Loaded, is
\* eventually marked loaded (TiledWorldMarker, RespawnTiledWorld removed) by
\* a pass that sends TiledWorldCreated, unless the load state changes or the
\* entity is removed first, whatever the state was at earlier passes.
C27_LoadedWorldIsEventuallyMarked ==
    /\ [][(/\ load_state = "Loading"
           /\ world_alive /\ (handle_changed \/ respawn)
           /\ ProcessLoadedWorlds)
              => (world_alive' /\ (handle_changed' \/ respawn'))]_vars
    /\ (/\ world_alive /\ (~marker \/ respawn \/ handle_changed)
        /\ load_state = "Loaded"
        /\ created_events < MaxEvents
        /\ ~panicked)
           ~> (\/ /\ marker /\ ~respawn
                  /\ last_commands.created =
                         << [entity |-> WorldEntity,
                             asset_id |-> WorldAssetId] >>
               \/ ~world_alive
               \/ load_state # "Loaded"
               \/ panicked)

\* The world was marked loaded by its first build, after the handle's
\* change had been seen by an earlier pass.
C27_Witness ==
    /\ last_op = "process_loaded_worlds"
    /\ load_state = "Loaded"
    /\ world_alive /\ marker /\ ~respawn /\ ~handle_changed
    /\ created_events = 1
    /\ last_commands.created # << >>
    /\ BagToSet(cameras) = {}

\* C32: the anchoring shift is applied once per world entity: after the
\* first successful load and after every later rebuild the translation of a
\* Centered world is its initial translation moved by half the world
\* rectangle's max corner, and the translation of a TiledOffset world is its
\* initial translation.
C32_CenteringShiftAppliedOnce ==
    \A initial \in InitTranslations :
        translation =
            IF layer_positioning = "Centered" /\ created_events >= 1
            THEN << initial[1] - (MaxCorner(maps)[1] \div 2),
                    initial[2] - (MaxCorner(maps)[2] \div 2) >>
            ELSE initial

(***************************************************************************)
(* Map documents handed to the asset loaders.  A tileset either has one    *)
(* shared image (image = << img >>) or is a collection of per-tile images  *)
(* (image = << >>); an Option is a sequence of length 0 or 1.              *)
(***************************************************************************)
MaxTiles == 3

\* Tile ids of a collection tileset in the order tileset.tiles() yields them.
TileIds == << 4, 1, 7, 2, 9 >>
ImageSizes == { << 16, 16 >>, << 16, 32 >>, << 32, 16 >> }

ImageOptions == { << >> } \cup { << sz >> : sz \in ImageSizes }

\* Tile lists of a collection tileset: up to MaxTiles tiles, each with or
\* without an image of its own; the image's source is named after the tile.
TileLists ==
    UNION { { [i \in 1 .. n |->
                  [id |-> TileIds[i],
                   image |-> IF f[i] = << >> THEN << >>
                             ELSE << [source |-> TileIds[i],
                                      width |-> f[i][1][1],
                                      height |-> f[i][1][2]] >>]] :
                  f \in [1 .. n -> ImageOptions] }
            : n \in 0 .. MaxTiles }

CollectionTilesets ==
    { [name |-> "collection", image |-> << >>, margin |-> 0, spacing |-> 0,
       offset_x |-> 0, offset_y |-> 0,
       tile_width |-> 16, tile_height |-> 16, tilecount |-> Len(tiles),
       tiles |-> tiles] : tiles \in TileLists }

\* Single-image tilesets as << width, margin, spacing, tile_width, offset_x,
\* offset_y >>: img.width, offset_x and offset_y are i32 in the document,
\* the others u32.
ImageTilesets ==
    { [name |-> "atlas",
       image |-> << [source |-> 0, width |-> q[1], height |-> 32] >>,
       margin |-> q[2], spacing |-> q[3],
       offset_x |-> q[5], offset_y |-> q[6],
       tile_width |-> q[4], tile_height |-> 16,
       tilecount |-> 4, tiles |-> << >>] :
          q \in ({ 8, 32 } \X { 0, 16 } \X { 0, 1 } \X { 0, 16 } \X { 0 } \X { 0 })
                    \cup { << 32, 0, 0, 16, 3, 2 >>, << 32, 16, 0, 16, -1, 0 >>,
                           << -1, 0, 0, 16, 0, 0 >> } }

FixedCollection ==
    [name |-> "collection", image |-> << >>, margin |-> 0, spacing |-> 0,
       offset_x |-> 0, offset_y |-> 0,
     tile_width |-> 16, tile_height |-> 16, tilecount |-> 1,
     tiles |-> << [id |-> 4,
                   image |-> << [source |-> 4, width |-> 16, height |-> 16] >>] >>]

\* A collection in which two tiles use the same image file.
SharedImageCollection ==
    [name |-> "shared", image |-> << >>, margin |-> 0, spacing |-> 0,
       offset_x |-> 0, offset_y |-> 0,
     tile_width |-> 16, tile_height |-> 16, tilecount |-> 2,
     tiles |-> << [id |-> 2,
                   image |-> << [source |-> 5, width |-> 16, height |-> 16] >>],
                  [id |-> 9,
                   image |-> << [source |-> 5, width |-> 16, height |-> 16] >>] >>]

TilesetLists ==
    { << >> }
        \cup { << t >> : t \in CollectionTilesets \cup ImageTilesets
                                \cup { SharedImageCollection } }
        \cup { << FixedCollection, t >> : t \in CollectionTilesets \cup ImageTilesets }

ParseOutcomes == { "Ok", "MalformedXml", "UnknownTileset" }

Documents ==
    [read : { "Ok", "IoError" }, parse : ParseOutcomes,
     tilesets : TilesetLists, overflow_checks : BOOLEAN]

(***************************************************************************)
(* u32 arithmetic as the build performs it: two 16-bit limbs, with the     *)
(* overflow the debug build aborts on and the release build wraps.         *)
(***************************************************************************)
Limb == 65536
\* `n as u32` of an i32 or a u32 value: a negative n is its two's
\* complement 2^32 + n, and the cast never aborts.
U32Of(n) == [hi |-> (n \div Limb) % Limb, lo |-> n % Limb, overflow |-> FALSE]

U32Sub(a, b) ==
    LET lo == a.lo - b.lo
        hi == a.hi - b.hi - (IF lo < 0 THEN 1 ELSE 0)
    IN [hi |-> hi % Limb, lo |-> lo % Limb,
        overflow |-> a.overflow \/ b.overflow \/ hi < 0]

U32Add(a, b) ==
    LET lo == a.lo + b.lo
        hi == a.hi + b.hi + (IF lo >= Limb THEN 1 ELSE 0)
    IN [hi |-> hi % Limb, lo |-> lo % Limb,
        overflow |-> a.overflow \/ b.overflow \/ hi >= Limb]

\* a / d for a divisor below 2^15.
U32DivSmall(a, d) ==
    LET r == a.hi % d
    IN [hi |-> a.hi \div d, lo |-> (r * Limb + a.lo) \div d,
        overflow |-> a.overflow]

U32IsZero(a) == a.hi = 0 /\ a.lo = 0

(***************************************************************************)
(* The load failures both loaders produce.                                 *)
(***************************************************************************)
\* reader.read_to_end(&mut bytes).await? : the io::Error goes into Io(..).
ReadError ==
    [variant |-> "Io", kind |-> "Read", context |-> << >>, cause |-> "IoError"]

\* A parse failure returned as it is, without the context message.
WrapParseErrorBare(cause) ==
    [variant |-> "Io", kind |-> "Other", context |-> << >>, cause |-> cause]

\* .map_err(|e| io::Error::new(ErrorKind::Other,
\*                             format!("Could not load TMX map: {e}")))?
WrapParseError(cause) ==
    [variant |-> "Io", kind |-> "Other",
     context |-> << "Could not load TMX map" >>, cause |-> cause]

LoadFailure(loader, error) ==
    [status |-> "Err", loader |-> loader, error |-> << error >>,
     asset |-> << >>, image_loads |-> << >>, labeled_assets |-> << >>,
     panicked |-> FALSE]

LoadPanic(loader) ==
    [status |-> "Panic", loader |-> loader, error |-> << >>,
     asset |-> << >>, image_loads |-> << >>, labeled_assets |-> << >>,
     panicked |-> TRUE]

(***************************************************************************)
(* TiledMapLoader::load, src/src/map/asset.rs:84-209.                      *)
(***************************************************************************)
\* Only the widths are compared.
ImageSizeDiffersWidthOnly(img, size) == img.width # size[1]

\* img.width != image_size.0 || img.height != image_size.1
ImageSizeDiffers(img, size) == img.width # size[1] \/ img.height # size[2]

\* Offsets counted from one.
NextOffsetFromOne(tile_images) == Len(tile_images) + 1

\* tile_images.len() as u32
NextOffset(tile_images) == Len(tile_images)

RECURSIVE CollectionLoop(_, _, _)
\* for (tile_id, tile) in tileset.tiles() { if let Some(img) = &tile.image .. }
\* acc: usable_for_tiles_layer, image_size, tile_images, tile_image_offsets.
CollectionLoop(tileset_index, tiles, acc) ==
    IF tiles = << >> THEN acc
    ELSE LET tile == Head(tiles) IN
         IF tile.image = << >>
         THEN CollectionLoop(tileset_index, Tail(tiles), acc)
         ELSE LET img == tile.image[1]
                  pushed ==
                      [acc EXCEPT
                          !.tile_image_offsets =
                              MapInsert(@, tile.id, NextOffset(acc.tile_images)),
                          !.tile_images = Append(@, img.source),
                          !.image_loads =
                              Append(@, [tileset |-> tileset_index,
                                         source |-> img.source])]
                  sized ==
                      IF ~pushed.usable_for_tiles_layer THEN pushed
                      ELSE IF pushed.image_size # << >>
                      THEN (IF ImageSizeDiffers(img, pushed.image_size[1])
                            THEN [pushed EXCEPT !.usable_for_tiles_layer = FALSE]
                            ELSE pushed)
                      ELSE [pushed EXCEPT
                               !.image_size = << << img.width, img.height >> >>]
              IN CollectionLoop(tileset_index, Tail(tiles), sized)

CollectionStart ==
    [usable_for_tiles_layer |-> TRUE, image_size |-> << >>,
     tile_images |-> << >>, tile_image_offsets |-> EmptyMap,
     image_loads |-> << >>]

\* The None arm of `match &tileset.image` (lines 125-153).
CollectionTileset(tileset_index, tileset) ==
    LET acc == CollectionLoop(tileset_index, tileset.tiles, CollectionStart)
    IN [panicked |-> FALSE,
        entry |-> [usable_for_tiles_layer |-> acc.usable_for_tiles_layer,
                   tilemap_texture |-> [kind |-> "Vector",
                                        images |-> acc.tile_images],
                   texture_atlas_layout_handle |-> << >>,
                   tile_image_offsets |-> acc.tile_image_offsets],
        image_loads |-> acc.image_loads,
        labeled_assets |-> << >>]

\* (img.width as u32 - tileset.margin + tileset.spacing) as the build
\* computes it, before the division.
ColumnsNumerator(tileset) ==
    U32Add(U32Sub(U32Of(tileset.image[1].width), U32Of(tileset.margin)),
           U32Of(tileset.spacing))

\* The Some(img) arm (lines 155-179).  The u32 subtractions and additions
\* abort when overflow checks are on and wrap otherwise; a zero divisor
\* aborts in every build.  The layout's offset is computed only when
\* columns > 0, after the image load was requested.
ImageTileset(tileset_index, tileset, overflow_checks) ==
    LET img == tileset.image[1]
        num == ColumnsNumerator(tileset)
        den == tileset.tile_width + tileset.spacing
        columns == U32DivSmall(num, den)
        rows == IF columns.hi > 0 THEN 0 ELSE tileset.tilecount \div columns.lo
        off_x == U32Add(U32Of(tileset.offset_x), U32Of(tileset.margin))
        off_y == U32Add(U32Of(tileset.offset_y), U32Of(tileset.margin))
        load == << [tileset |-> tileset_index, source |-> img.source] >>
    IN IF \/ (overflow_checks /\ num.overflow) \/ den = 0
          \/ (~U32IsZero(columns) /\ overflow_checks
                  /\ (off_x.overflow \/ off_y.overflow))
       THEN [panicked |-> TRUE, entry |-> << >>, image_loads |-> load,
             labeled_assets |-> << >>]
       ELSE [panicked |-> FALSE,
             entry |-> [usable_for_tiles_layer |-> TRUE,
                        tilemap_texture |-> [kind |-> "Single",
                                             images |-> << img.source >>],
                        texture_atlas_layout_handle |->
                            IF U32IsZero(columns) THEN << >>
                            ELSE << tileset.name >>,
                        tile_image_offsets |-> EmptyMap],
             image_loads |-> load,
             labeled_assets |->
                 IF U32IsZero(columns) THEN << >>
                 ELSE << [label |-> tileset.name,
                          columns |-> [hi |-> columns.hi, lo |-> columns.lo],
                          rows |-> rows,
                          padding |-> << tileset.spacing, tileset.spacing >>,
                          offset |-> << [hi |-> off_x.hi, lo |-> off_x.lo],
                                        [hi |-> off_y.hi, lo |-> off_y.lo] >>] >>]

RECURSIVE TilesetsLoop(_, _, _, _)
\* for (tileset_index, tileset) in map.tilesets().iter().enumerate()
TilesetsLoop(tilesets, tileset_index, overflow_checks, acc) ==
    IF tileset_index >= Len(tilesets) THEN acc
    ELSE LET tileset == tilesets[tileset_index + 1]
             one == IF tileset.image = << >>
                    THEN CollectionTileset(tileset_index, tileset)
                    ELSE ImageTileset(tileset_index, tileset, overflow_checks)
         IN IF one.panicked
            THEN [acc EXCEPT !.panicked = TRUE,
                             !.image_loads = @ \o one.image_loads]
            ELSE TilesetsLoop(tilesets, tileset_index + 1, overflow_checks,
                     [acc EXCEPT
                         !.tilesets = MapInsert(@, tileset_index, one.entry),
                         !.image_loads = @ \o one.image_loads,
                         !.labeled_assets = @ \o one.labeled_assets])

TilesetsStart ==
    [panicked |-> FALSE, tilesets |-> EmptyMap, image_loads |-> << >>,
     labeled_assets |-> << >>]

TiledMapLoader_load(doc) ==
    IF doc.read # "Ok" THEN LoadFailure("TiledMapLoader", ReadError)
    ELSE IF doc.parse # "Ok"
    THEN LoadFailure("TiledMapLoader", WrapParseError(doc.parse))
    ELSE LET out == TilesetsLoop(doc.tilesets, 0, doc.overflow_checks,
                                 TilesetsStart)
         IN IF out.panicked
            THEN [LoadPanic("TiledMapLoader") EXCEPT
                     !.image_loads = out.image_loads]
            ELSE [status |-> "Ok", loader |-> "TiledMapLoader",
                  error |-> << >>,
                  asset |-> << [tilesets |-> out.tilesets] >>,
                  image_loads |-> out.image_loads,
                  labeled_assets |-> out.labeled_assets,
                  panicked |-> FALSE]

(***************************************************************************)
(* TiledLoader::load, src/src/loader.rs:144-230.                           *)
(***************************************************************************)
RECURSIVE TileImagesLoop(_, _, _)
\* for (tile_id, tile) in tileset.tiles() { if let Some(img) = &tile.image .. }
\* acc: tile_images of this tileset, the map-wide tile_image_offsets.
TileImagesLoop(tileset_index, tiles, acc) ==
    IF tiles = << >> THEN acc
    ELSE LET tile == Head(tiles) IN
         IF tile.image = << >>
         THEN TileImagesLoop(tileset_index, Tail(tiles), acc)
         ELSE TileImagesLoop(tileset_index, Tail(tiles),
                  [acc EXCEPT
                      !.tile_image_offsets =
                          MapInsert(@, << tileset_index, tile.id >>,
                                    NextOffset(acc.tile_images)),
                      !.tile_images = Append(@, tile.image[1].source),
                      !.image_loads =
                          Append(@, [tileset |-> tileset_index,
                                     source |-> tile.image[1].source])])

RECURSIVE TexturesLoop(_, _, _)
\* for (tileset_index, tileset) in map.tilesets().iter().enumerate()
\* acc: tilemap_textures, tile_image_offsets, image_loads.
TexturesLoop(tilesets, tileset_index, acc) ==
    IF tileset_index >= Len(tilesets) THEN acc
    ELSE LET tileset == tilesets[tileset_index + 1] IN
         IF tileset.image = << >>
         THEN LET inner == TileImagesLoop(tileset_index, tileset.tiles,
                               [tile_images |-> << >>,
                                tile_image_offsets |-> acc.tile_image_offsets,
                                image_loads |-> acc.image_loads])
              IN TexturesLoop(tilesets, tileset_index + 1,
                     [tilemap_textures |->
                          MapInsert(acc.tilemap_textures, tileset_index,
                                    [kind |-> "Vector",
                                     images |-> inner.tile_images]),
                      tile_image_offsets |-> inner.tile_image_offsets,
                      image_loads |-> inner.image_loads])
         ELSE TexturesLoop(tilesets, tileset_index + 1,
                  [acc EXCEPT
                      !.tilemap_textures =
                          MapInsert(@, tileset_index,
                                    [kind |-> "Single",
                                     images |-> << tileset.image[1].source >>]),
                      !.image_loads =
                          Append(@, [tileset |-> tileset_index,
                                     source |-> tileset.image[1].source])])

TexturesStart ==
    [tilemap_textures |-> EmptyMap, tile_image_offsets |-> EmptyMap,
     image_loads |-> << >>]

TiledLoader_load(doc) ==
    IF doc.read # "Ok" THEN LoadFailure("TiledLoader", ReadError)
    ELSE IF doc.parse # "Ok"
    THEN LoadFailure("TiledLoader", WrapParseError(doc.parse))
    ELSE LET out == TexturesLoop(doc.tilesets, 0, TexturesStart)
         IN [status |-> "Ok", loader |-> "TiledLoader", error |-> << >>,
             asset |-> << [tilemap_textures |-> out.tilemap_textures,
                           tile_image_offsets |-> out.tile_image_offsets] >>,
             image_loads |-> out.image_loads,
             labeled_assets |-> << >>,
             panicked |-> FALSE]

(***************************************************************************)
(* BytesResourceReader::read_from, src/src/loader.rs:113-128.  A path is   *)
(* its directory names and its file name, the file name as the segments    *)
(* between its dots: "tilesets/tiles.tsx" is dirs << "tilesets" >>, name   *)
(* << "tiles", "tsx" >>; ".tsx" is name << "", "tsx" >>.                   *)
(***************************************************************************)
Path(dirs, name) == [dirs |-> dirs, name |-> name]

Paths ==
    { Path(<< >>, << "map", "tmx" >>),
      Path(<< >>, << "tiles", "tsx" >>),
      Path(<< "tilesets" >>, << "tiles", "tsx" >>),
      Path(<< >>, << "tiles", "v2", "tsx" >>),
      Path(<< >>, << "tiles", "tsx", "bak" >>),
      Path(<< >>, << "tiles", "TSX" >>),
      Path(<< >>, << "tiles", "png" >>),
      Path(<< >>, << "tsx" >>),
      Path(<< "tsx" >>, << "tiles" >>),
      Path(<< "pack.tsx" >>, << "tiles" >>),
      Path(<< >>, << "", "tsx" >>) }

\* context.read_asset_bytes(path): the bytes of the file or an error.
SecondaryReads ==
    { [ok |-> TRUE, data |-> "tileset bytes"],
      [ok |-> TRUE, data |-> "map bytes"],
      [ok |-> FALSE, data |-> "asset not found"] }

\* The reader's own bytes: the map document load was given.
PrimaryBytes == { "map bytes", "other map bytes" }

Resources ==
    [reader : {TRUE}, path : Paths, bytes : PrimaryBytes,
     secondary : SecondaryReads]

\* Path::extension: the part of the file name after its last dot; none
\* without a dot, and none for a name whose only dot is its first character.
Extension(path) ==
    LET name == path.name IN
    IF Len(name) < 2 \/ (Len(name) = 2 /\ name[1] = "")
    THEN << >>
    ELSE << name[Len(name)] >>

\* A reader that hands out its own bytes when the tileset cannot be read.
read_from_falls_back(reader, path) ==
    IF Extension(path) = << "tsx" >> /\ reader.secondary.ok
    THEN [status |-> "Ok", bytes |-> reader.secondary.data, error |-> << >>,
          read_asset_bytes |-> << path >>]
    ELSE [status |-> "Ok", bytes |-> reader.bytes, error |-> << >>,
          read_asset_bytes |->
              IF Extension(path) = << "tsx" >> THEN << path >> ELSE << >>]

\* if let Some(extension) = path.extension() { if extension == "tsx" {
\*     read_asset_bytes(path).map_err(|err| IoError::new(NotFound, err))? } }
\* Ok(Box::new(Cursor::new(self.bytes.clone())))
read_from(reader, path) ==
    IF Extension(path) = << "tsx" >>
    THEN IF reader.secondary.ok
         THEN [status |-> "Ok", bytes |-> reader.secondary.data,
               error |-> << >>, read_asset_bytes |-> << path >>]
         ELSE [status |-> "Err", bytes |-> None,
               error |-> << [kind |-> "NotFound",
                             cause |-> reader.secondary.data] >>,
               read_asset_bytes |-> << path >>]
    ELSE [status |-> "Ok", bytes |-> reader.bytes, error |-> << >>,
          read_asset_bytes |-> << >>]

(***************************************************************************)
(* SpecLoader: one of the two loaders loads a drawn document, or the       *)
(* resource reader is asked for a drawn path.                              *)
(***************************************************************************)
InitLoader ==
    /\ WorldIdle
    /\ TilesIdle
    /\ InstancesIdle
    /\ MapsIdle
    /\ load_result = [status |-> NotRun]
    /\ read_result = [status |-> NotRun]
    /\ \/ document \in Documents /\ resource = [reader |-> FALSE]
       \/ document = [read |-> None] /\ resource \in Resources

TiledMapLoaderLoad ==
    /\ document.read # None
    /\ load_result.status = NotRun
    /\ load_result' = TiledMapLoader_load(document)
    /\ UNCHANGED << document, resource, read_result, worldVars, tileVars,
                    instanceVars, mapVars >>

TiledLoaderLoad ==
    /\ document.read # None
    /\ load_result.status = NotRun
    /\ load_result' = TiledLoader_load(document)
    /\ UNCHANGED << document, resource, read_result, worldVars, tileVars,
                    instanceVars, mapVars >>

ReadFrom ==
    /\ resource.reader
    /\ read_result.status = NotRun
    /\ read_result' = read_from(resource, resource.path)
    /\ UNCHANGED << document, load_result, resource, worldVars, tileVars,
                    instanceVars, mapVars >>

NextLoader ==
    \/ TiledMapLoaderLoad
    \/ TiledLoaderLoad
    \/ ReadFrom

SpecLoader == InitLoader /\ [][NextLoader]_vars

(***************************************************************************)
(* Properties of the loaders.                                              *)
(***************************************************************************)
\* The images of the tiles of a collection tileset that have one.
TileImagesOf(tileset) ==
    { tileset.tiles[i].image[1] :
          i \in { j \in 1 .. Len(tileset.tiles) : tileset.tiles[j].image # << >> } }

AllSameDimensions(imgs) ==
    \A a \in imgs, b \in imgs : a.width = b.width /\ a.height = b.height

MapLoaderSucceeded ==
    load_result.status = "Ok" /\ load_result.loader = "TiledMapLoader"

\* C9: for every image-collection tileset the map loader sets
\* usable_for_tiles_layer to true exactly when all tile images have the same
\* width and height (a tileset without tile images gets true).
C9_UsableIffUniformImages ==
    MapLoaderSucceeded
        => \A i \in 1 .. Len(document.tilesets) :
               document.tilesets[i].image = << >>
                   => (load_result.asset[1].tilesets[i - 1].usable_for_tiles_layer
                          <=> AllSameDimensions(TileImagesOf(document.tilesets[i])))

\* A loaded collection tileset whose images agree in width and differ in
\* height, marked unusable.
C9_Witness ==
    /\ MapLoaderSucceeded
    /\ \E i \in 1 .. Len(document.tilesets) :
           /\ document.tilesets[i].image = << >>
           /\ \E a \in TileImagesOf(document.tilesets[i]),
                 b \in TileImagesOf(document.tilesets[i]) :
                  a.width = b.width /\ a.height # b.height
           /\ ~load_result.asset[1].tilesets[i - 1].usable_for_tiles_layer

\* C10: when the document cannot be parsed, load returns an error that
\* carries the parse cause under a context message, returns no asset, and has
\* requested no image and registered no tileset.
C10_ParseFailureIsWrappedError ==
    (load_result.status # NotRun /\ document.read = "Ok"
                                 /\ document.parse # "Ok")
        => /\ load_result.status = "Err"
           /\ Len(load_result.error) = 1
           /\ load_result.error[1].variant = "Io"
           /\ load_result.error[1].context = << "Could not load TMX map" >>
           /\ load_result.error[1].cause = document.parse
           /\ load_result.asset = << >>
           /\ load_result.image_loads = << >>
           /\ load_result.labeled_assets = << >>

\* A malformed document that names tilesets has been refused by load.
C10_Witness ==
    /\ load_result.status = "Err"
    /\ document.read = "Ok"
    /\ document.parse = "MalformedXml"
    /\ document.tilesets # << >>

\* What a successful load recorded for tileset i: the offsets by tile id
\* and the image list.
RecordedOffsets(i) ==
    IF load_result.loader = "TiledMapLoader"
    THEN load_result.asset[1].tilesets[i].tile_image_offsets
    ELSE [id \in { k[2] : k \in { q \in DOMAIN load_result.asset[1].tile_image_offsets :
                                      q[1] = i } }
              |-> load_result.asset[1].tile_image_offsets[<< i, id >>]]
RecordedImages(i) ==
    IF load_result.loader = "TiledMapLoader"
    THEN load_result.asset[1].tilesets[i].tilemap_texture.images
    ELSE load_result.asset[1].tilemap_textures[i].images

\* C23: for an image-collection tileset the builder makes one request per
\* tile that has an image, in encounter order, the offset recorded for such a tile is the
\* number of tiles with an image met before it, the image list holds the
\* tile's image at that offset and has no other entry, and a tile without an
\* image gets no offset.
C23_OffsetsFollowEncounterOrder ==
    load_result.status = "Ok"
        => \A i \in 0 .. Len(document.tilesets) - 1 :
               document.tilesets[i + 1].image = << >>
                   => LET tiles == document.tilesets[i + 1].tiles
                          imaged == { k \in 1 .. Len(tiles) :
                                          tiles[k].image # << >> }
                      IN /\ DOMAIN RecordedOffsets(i) =
                                { tiles[k].id : k \in imaged }
                         /\ Len(RecordedImages(i)) = Cardinality(imaged)
                         /\ \A k \in imaged :
                                /\ RecordedOffsets(i)[tiles[k].id] =
                                       Cardinality({ j \in imaged : j < k })
                                /\ RecordedImages(i)
                                       [RecordedOffsets(i)[tiles[k].id] + 1]
                                       = tiles[k].image[1].source
                         /\ LET OfThis(l) == l.tileset = i
                                requested ==
                                    SelectSeq(load_result.image_loads, OfThis)
                            IN /\ Len(requested) = Cardinality(imaged)
                               /\ \A n \in 1 .. Len(requested) :
                                      requested[n].source = RecordedImages(i)[n]

\* A collection whose first tile has no image and whose next two have one
\* was loaded: the two got the offsets 0 and 1.
C23_Witness ==
    /\ load_result.status = "Ok"
    /\ load_result.loader = "TiledLoader"
    /\ Len(document.tilesets) = 1
    /\ document.tilesets[1].image = << >>
    /\ Len(document.tilesets[1].tiles) = 3
    /\ document.tilesets[1].tiles[1].image = << >>
    /\ load_result.asset[1].tile_image_offsets
           = (<< 0, 1 >> :> 0) @@ (<< 0, 7 >> :> 1)
    /\ load_result.asset[1].tilemap_textures[0].images = << 1, 7 >>

\* TiledMapLoader::load was given a document it could read and parse.
MapLoaderBuilt ==
    /\ load_result.status # NotRun
    /\ load_result.loader = "TiledMapLoader"
    /\ document.read = "Ok"
    /\ document.parse = "Ok"

\* The atlas layouts registered under the name of tileset i.
LayoutsOf(i) ==
    { n \in 1 .. Len(load_result.labeled_assets) :
          load_result.labeled_assets[n].label = document.tilesets[i + 1].name }

\* C24: for every single-image tileset with tile_width + spacing > 0 the
\* build does not abort and the column count it computes is
\* floor((image_width - margin + spacing) / (tile_width + spacing)) over
\* the integers, margin greater than image_width included: a layout with
\* that many columns when the quotient is not 0, no layout when it is 0.
C24_ColumnsAreTheIntegerQuotient ==
    MapLoaderBuilt
        => \A i \in 0 .. Len(document.tilesets) - 1 :
               LET tileset == document.tilesets[i + 1] IN
               (tileset.image # << >> /\ tileset.tile_width + tileset.spacing > 0)
                   => LET quotient ==
                              (tileset.image[1].width - tileset.margin
                                   + tileset.spacing)
                                  \div (tileset.tile_width + tileset.spacing)
                      IN /\ load_result.status = "Ok"
                         /\ IF quotient = 0 THEN LayoutsOf(i) = {}
                            ELSE /\ quotient > 0
                                 /\ \E n \in LayoutsOf(i) :
                                        /\ load_result.labeled_assets[n].columns.hi
                                               = quotient \div Limb
                                        /\ load_result.labeled_assets[n].columns.lo
                                               = quotient % Limb

\* C25: a single-image tileset whose column count is 0 gets no atlas layout
\* and is not marked usable for tile layers, while every other tileset of
\* the map is loaded; one with columns > 0 gets an atlas layout handle with
\* rows = tile_count / columns and is marked usable.
C25_NoColumnsTilesetIsSkipped ==
    (MapLoaderBuilt /\ load_result.status = "Ok")
        => \A i \in 0 .. Len(document.tilesets) - 1 :
               LET tileset == document.tilesets[i + 1]
                   loaded == load_result.asset[1].tilesets
               IN IF tileset.image = << >> THEN i \in DOMAIN loaded
                  ELSE IF LayoutsOf(i) = {}
                  THEN \/ i \notin DOMAIN loaded
                       \/ /\ ~loaded[i].usable_for_tiles_layer
                          /\ loaded[i].texture_atlas_layout_handle = << >>
                  ELSE /\ i \in DOMAIN loaded
                       /\ loaded[i].usable_for_tiles_layer
                       /\ loaded[i].texture_atlas_layout_handle # << >>
                       /\ \A n \in LayoutsOf(i) :
                              /\ load_result.labeled_assets[n].columns.hi = 0
                                     => load_result.labeled_assets[n].rows =
                                            tileset.tilecount \div
                                            load_result.labeled_assets[n].columns.lo

\* C17: read_from returns the bytes of the secondary read when the path's
\* extension is tsx and that read succeeds, an error of kind NotFound (and
\* not the primary bytes) when it fails, and the reader's own bytes, without
\* a secondary read, for every path whose extension is not tsx, paths
\* without extension included.
C17_ReadFromResolvesByExtension ==
    read_result.status # NotRun
        => LET name == resource.path.name
               tsx == /\ Len(name) >= 2
                      /\ name[Len(name)] = "tsx"
                      /\ ~(Len(name) = 2 /\ name[1] = "")
           IN IF tsx
              THEN /\ read_result.read_asset_bytes = << resource.path >>
                   /\ IF resource.secondary.ok
                      THEN /\ read_result.status = "Ok"
                           /\ read_result.bytes = resource.secondary.data
                      ELSE /\ read_result.status = "Err"
                           /\ read_result.error[1].kind = "NotFound"
                           /\ read_result.bytes # resource.bytes
              ELSE /\ read_result.status = "Ok"
                   /\ read_result.bytes = resource.bytes
                   /\ read_result.read_asset_bytes = << >>

\* A tileset path whose secondary read failed was answered with NotFound.
C17_Witness ==
    /\ read_result.status = "Err"
    /\ resource.path = Path(<< "tilesets" >>, << "tiles", "tsx" >>)
    /\ ~resource.secondary.ok
    /\ read_result.error[1].kind = "NotFound"

(***************************************************************************)
(* Tile layers handed to the materialiser.                                 *)
(***************************************************************************)
MaxWidth == 2
MaxHeight == 2
MaxChunks == 2

\* ChunkData::WIDTH and ChunkData::HEIGHT of the tiled crate.
ChunkWidth == 16
ChunkHeight == 16

TileA == [tileset_index |-> 0, id |-> 3,
          flip_h |-> TRUE, flip_v |-> FALSE, flip_d |-> FALSE]
TileB == [tileset_index |-> 1, id |-> 4,
          flip_h |-> FALSE, flip_v |-> TRUE, flip_d |-> TRUE]
CellOptions == { << >>, << TileA >>, << TileB >> }

FiniteLayers ==
    UNION { { [type |-> "Finite", width |-> w, height |-> h, cells |-> c] :
                  c \in [(0 .. w - 1) \X (0 .. h - 1) -> CellOptions] }
            : w \in 1 .. MaxWidth, h \in 1 .. MaxHeight }

\* Chunk coordinates on either side of the Tiled origin.
ChunkCoords == (0 - 1) .. 1

\* The cells of one chunk that hold a tile, by local (x, y).
ChunkContents ==
    { EmptyMap,
      (<< 0, 0 >> :> TileA),
      (<< 2, 15 >> :> TileA) @@ (<< 15, 1 >> :> TileB) }

RECURSIVE ChunkPositionSets(_)
\* The sets of at most k chunk positions.
ChunkPositionSets(k) ==
    IF k = 0 THEN { {} }
    ELSE LET smaller == ChunkPositionSets(k - 1)
         IN smaller \cup { Q \cup { p } :
                               Q \in smaller, p \in ChunkCoords \X ChunkCoords }

InfiniteLayers ==
    UNION { { [type |-> "Infinite", chunks |-> c] : c \in [P -> ChunkContents] }
            : P \in ChunkPositionSets(MaxChunks) }

\* The tilesets of the maps the layers belong to: tileset 0 has one shared
\* image, tileset 1 is a collection whose tile 4 may lack an image.
TileSpecTilesetLists ==
    { << [name |-> "atlas",
          image |-> << [source |-> 0, width |-> 64, height |-> 64] >>,
          margin |-> 0, spacing |-> 0, offset_x |-> 0, offset_y |-> 0,
          tile_width |-> 16, tile_height |-> 16,
          tilecount |-> 16, tiles |-> << >>],
         [name |-> "collection", image |-> << >>, margin |-> 0, spacing |-> 0,
       offset_x |-> 0, offset_y |-> 0,
          tile_width |-> 16, tile_height |-> 16, tilecount |-> 2,
          tiles |-> << [id |-> 1,
                        image |-> << [source |-> 1, width |-> 16,
                                      height |-> 16] >>],
                       [id |-> 4, image |-> img4] >>] >> :
          img4 \in { << >>,
                     << [source |-> 4, width |-> 16, height |-> 16] >> } }

(***************************************************************************)
(* TileStorage and the loop body shared by load_finite_tiles               *)
(* (src/src/loader.rs:516-561) and load_infinite_tiles (607-659).          *)
(***************************************************************************)
\* TileStorage::empty(size)
\* rejected: the position whose set aborted, as an Option.
TileStorageEmpty(size) ==
    [status |-> "Ok", size |-> size, tiles |-> EmptyMap, rejected |-> << >>]

\* A storage that keeps its tiles in the order they arrive.
TileStorageSetAppends(storage, pos, bundle) ==
    LET index == Cardinality(DOMAIN storage.tiles) IN
    IF index >= storage.size[1] * storage.size[2]
    THEN [storage EXCEPT !.status = "Panic", !.rejected = << pos >>]
    ELSE [storage EXCEPT
             !.tiles = MapInsert(@, << index % storage.size[1],
                                       index \div storage.size[1] >>, bundle)]

\* TileStorage::set: tiles[pos.y * size.x + pos.x].replace(entity); an index
\* past the vector aborts.  The cell written is named by its coordinates.
TileStorageSet(storage, pos, bundle) ==
    LET index == pos[2] * storage.size[1] + pos[1] IN
    IF index >= storage.size[1] * storage.size[2]
    THEN [storage EXCEPT !.status = "Panic", !.rejected = << pos >>]
    ELSE [storage EXCEPT
             !.tiles = MapInsert(@, << index % storage.size[1],
                                       index \div storage.size[1] >>, bundle)]

\* The tile id is used whatever the texture binding is.
TextureIndexAlwaysId(tilemap_texture, offsets, tileset_index, layer_tile) ==
    << layer_tile.id >>

\* match tilemap_texture { Single(_) => layer_tile.id(),
\*                         Vector(_) => *offsets.get(&(tileset, id)).expect(..) }
\* as an Option: << >> is the failed expect.
TextureIndex(tilemap_texture, offsets, tileset_index, layer_tile) ==
    IF tilemap_texture.kind = "Single" THEN << layer_tile.id >>
    ELSE IF << tileset_index, layer_tile.id >> \in DOMAIN offsets
    THEN << offsets[<< tileset_index, layer_tile.id >>] >>
    ELSE << >>

\* The TileBundle spawned for one tile.
TileBundle(tile_pos, texture_index, layer_tile_data) ==
    [position |-> tile_pos,
     texture_index |-> texture_index,
     flip |-> [x |-> layer_tile_data.flip_h, y |-> layer_tile_data.flip_v,
               d |-> layer_tile_data.flip_d]]

\* A materialiser that takes the tiles of every tileset.
OtherTilesetNever(tileset_index, layer_tile) == FALSE

\* if tileset_index != layer_tile.tileset_index() { continue; }
OtherTileset(tileset_index, layer_tile) ==
    tileset_index # layer_tile.tileset_index

RECURSIVE PlaceTiles(_, _, _, _, _)
\* The loop body over the cells visited: skip an empty cell and a tile of
\* another tileset, look the texture index up, spawn the tile, set it.
\* visits: sequence of [tile_pos, layer_tile (an Option)].
PlaceTiles(visits, storage, tmap, tileset_index, tilemap_texture) ==
    IF visits = << >> \/ storage.status = "Panic" THEN storage
    ELSE LET visit == Head(visits)
             rest == Tail(visits)
         IN IF visit.layer_tile = << >>
            THEN PlaceTiles(rest, storage, tmap, tileset_index, tilemap_texture)
            ELSE IF OtherTileset(tileset_index, visit.layer_tile[1])
            THEN PlaceTiles(rest, storage, tmap, tileset_index, tilemap_texture)
            ELSE LET texture_index ==
                         TextureIndex(tilemap_texture, tmap.tile_image_offsets,
                                      tileset_index, visit.layer_tile[1])
                 IN IF texture_index = << >>
                    THEN [storage EXCEPT !.status = "Panic"]
                    ELSE PlaceTiles(rest,
                             TileStorageSet(storage, visit.tile_pos,
                                 TileBundle(visit.tile_pos, texture_index[1],
                                            visit.layer_tile[1])),
                             tmap, tileset_index, tilemap_texture)

(***************************************************************************)
(* load_finite_tiles, src/src/loader.rs:498-566.                           *)
(***************************************************************************)
\* FiniteTileLayer::get_tile / get_tile_data: None out of bounds or empty.
FiniteGetTile(layer_data, x, y) ==
    IF x >= 0 /\ x < layer_data.width /\ y >= 0 /\ y < layer_data.height
    THEN layer_data.cells[<< x, y >>]
    ELSE << >>

\* The document row is read as it is: no change of coordinates.
MappedYNotInverted(map_height, y) == y

\* let mapped_y = tiled_map.map.height - 1 - y;
MappedY(map_height, y) == map_height - 1 - y

RECURSIVE FiniteVisits(_, _, _, _)
\* for x in 0..map_size.x { for y in 0..map_size.y { .. } } from cell k on,
\* k = x * map_size.y + y.
FiniteVisits(map_size, tmap, layer_data, k) ==
    IF k >= map_size[1] * map_size[2] THEN << >>
    ELSE LET x == k \div map_size[2]
             y == k % map_size[2]
         IN << [tile_pos |-> << x, y >>,
                layer_tile |->
                    FiniteGetTile(layer_data, x, MappedY(tmap.height, y))] >>
                \o FiniteVisits(map_size, tmap, layer_data, k + 1)

load_finite_tiles(map_size, tmap, layer_data, tileset_index, tilemap_texture) ==
    PlaceTiles(FiniteVisits(map_size, tmap, layer_data, 0),
               TileStorageEmpty(map_size), tmap, tileset_index, tilemap_texture)

(***************************************************************************)
(* load_infinite_tiles, src/src/loader.rs:568-665.                         *)
(***************************************************************************)
RECURSIVE TopLeft(_, _)
\* chunks().fold((0, 0), |acc, (pos, _)| (acc.0.min(pos.0), acc.1.min(pos.1)))
TopLeft(positions, acc) ==
    IF positions = << >> THEN acc
    ELSE TopLeft(Tail(positions),
                 << Min2(acc[1], Head(positions)[1]),
                    Min2(acc[2], Head(positions)[2]) >>)

RECURSIVE BottomRight(_, _)
\* chunks().fold((0, 0), |acc, (pos, _)| (acc.0.max(pos.0), acc.1.max(pos.1)))
BottomRight(positions, acc) ==
    IF positions = << >> THEN acc
    ELSE BottomRight(Tail(positions),
                     << Max2(acc[1], Head(positions)[1]),
                        Max2(acc[2], Head(positions)[2]) >>)

ChunkPositions(infinite_layer) == SetToSeq(DOMAIN infinite_layer.chunks)

\* let _origin = (-topleft_x * WIDTH, -topleft_y * HEIGHT);
Origin(infinite_layer) ==
    LET topleft == TopLeft(ChunkPositions(infinite_layer), << 0, 0 >>)
    IN << (0 - topleft[1]) * ChunkWidth, (0 - topleft[2]) * ChunkHeight >>

\* Recalculate map size based on the top left and bottom right coordinates.
InfiniteMapSize(infinite_layer) ==
    LET topleft == TopLeft(ChunkPositions(infinite_layer), << 0, 0 >>)
        bottomright == BottomRight(ChunkPositions(infinite_layer), << 0, 0 >>)
    IN << (bottomright[1] - topleft[1] + 1) * ChunkWidth,
          (bottomright[2] - topleft[2] + 1) * ChunkHeight >>

RECURSIVE ChunkVisits(_, _, _, _)
\* for x in 0..WIDTH { for y in 0..HEIGHT { .. } } over the cells of a chunk
\* that hold a tile (get_tile is None for the others, which are skipped).
ChunkVisits(chunk, cells, chunk_pos_mapped, map_size) ==
    IF cells = << >> THEN << >>
    ELSE LET x == Head(cells)[1]
             y == Head(cells)[2]
             tile_x == chunk_pos_mapped[1] * ChunkWidth + x
             tile_y == chunk_pos_mapped[2] * ChunkHeight + y
         IN << [tile_pos |-> << tile_x, map_size[2] - tile_y >>,
                layer_tile |-> << chunk[<< x, y >>] >>] >>
                \o ChunkVisits(chunk, Tail(cells), chunk_pos_mapped, map_size)

\* let chunk_pos_mapped = (chunk_pos.0 - topleft_x, chunk_pos.1 - topleft_y);
ChunkPosMapped(chunk_pos, topleft) ==
    << chunk_pos[1] - topleft[1], chunk_pos[2] - topleft[2] >>

RECURSIVE InfiniteVisits(_, _, _, _)
\* for (chunk_pos, chunk) in infinite_layer.chunks() { .. }
InfiniteVisits(infinite_layer, positions, topleft, map_size) ==
    IF positions = << >> THEN << >>
    ELSE LET chunk_pos == Head(positions)
             chunk == infinite_layer.chunks[chunk_pos]
         IN ChunkVisits(chunk, SetToSeq(DOMAIN chunk),
                        ChunkPosMapped(chunk_pos, topleft), map_size)
                \o InfiniteVisits(infinite_layer, Tail(positions), topleft,
                                  map_size)

\* chunks() iterates a HashMap: the orders in which the chunks can come.
ChunkOrders(infinite_layer) ==
    LET P == DOMAIN infinite_layer.chunks IN
    { order \in [1 .. Cardinality(P) -> P] :
          \A i, j \in 1 .. Cardinality(P) : order[i] = order[j] => i = j }

\* chunk_order: the order in which chunks() yields the chunks this time.
load_infinite_tiles(tmap, infinite_layer, chunk_order, tileset_index, texture) ==
    LET topleft == TopLeft(chunk_order, << 0, 0 >>)
        map_size == InfiniteMapSize(infinite_layer)
    IN PlaceTiles(InfiniteVisits(infinite_layer, chunk_order, topleft,
                                 map_size),
                  TileStorageEmpty(map_size), tmap, tileset_index, texture)

(***************************************************************************)
(* SpecTiles: one (tileset, layer) iteration of load_map                   *)
(* (src/src/loader.rs:396-467) on a drawn map asset and layer.             *)
(***************************************************************************)
\* The TiledMap asset TiledLoader::load builds for a list of tilesets.
MapAssetFor(tilesets, width, height) ==
    LET asset == TiledLoader_load([read |-> "Ok", parse |-> "Ok",
                                   tilesets |-> tilesets,
                                   overflow_checks |-> TRUE]).asset[1]
    IN [width |-> width, height |-> height,
        tilemap_textures |-> asset.tilemap_textures,
        tile_image_offsets |-> asset.tile_image_offsets]

InitTiles ==
    /\ WorldIdle
    /\ LoaderIdle
    /\ InstancesIdle
    /\ MapsIdle
    /\ layer \in FiniteLayers \cup InfiniteLayers
    /\ \E tilesets \in TileSpecTilesetLists :
           tiled_map = IF layer.type = "Finite"
                       THEN MapAssetFor(tilesets, layer.width, layer.height)
                       ELSE MapAssetFor(tilesets, ChunkWidth, ChunkHeight)
    /\ tile_storage = [status |-> NotRun]
    /\ storages = EmptyMap

\* What one call left behind: the storage, the tileset it was built for,
\* whether this (layer, tileset) pair had been materialised before, and for
\* an infinite layer the origin and the shifted chunk coordinates computed.
Returned(storage, tileset_index, origin, chunks_mapped) ==
    [status |-> storage.status, size |-> storage.size, tiles |-> storage.tiles,
     rejected |-> storage.rejected, tileset_index |-> tileset_index,
     again |-> tileset_index \in DOMAIN storages,
     origin |-> origin, chunks_mapped |-> chunks_mapped]

\* The first result of each tileset is kept beside the latest one.
Keep(result) ==
    /\ tile_storage' = result
    /\ storages' = IF result.tileset_index \in DOMAIN storages
                   THEN storages
                   ELSE MapInsert(storages, result.tileset_index, result)

LoadFiniteTiles(tileset_index) ==
    /\ layer.type = "Finite"
    /\ tileset_index \in DOMAIN tiled_map.tilemap_textures
    /\ Keep(Returned(load_finite_tiles(<< tiled_map.width, tiled_map.height >>,
                          tiled_map, layer, tileset_index,
                          tiled_map.tilemap_textures[tileset_index]),
                     tileset_index, << >>, {}))
    /\ UNCHANGED << tiled_map, layer, worldVars, loaderVars, instanceVars,
                    mapVars >>

LoadInfiniteTiles(tileset_index) ==
    /\ layer.type = "Infinite"
    /\ tileset_index \in DOMAIN tiled_map.tilemap_textures
    /\ \E chunk_order \in ChunkOrders(layer) :
           Keep(Returned(load_infinite_tiles(tiled_map, layer, chunk_order,
                             tileset_index,
                             tiled_map.tilemap_textures[tileset_index]),
                         tileset_index, << Origin(layer) >>,
                         { ChunkPosMapped(chunk_pos,
                                          TopLeft(chunk_order, << 0, 0 >>)) :
                               chunk_pos \in DOMAIN layer.chunks }))
    /\ UNCHANGED << tiled_map, layer, worldVars, loaderVars, instanceVars,
                    mapVars >>

TilesetIndices == 0 .. 1

NextTiles ==
    \/ \E tileset_index \in TilesetIndices : LoadFiniteTiles(tileset_index)
    \/ \E tileset_index \in TilesetIndices : LoadInfiniteTiles(tileset_index)

SpecTiles == InitTiles /\ [][NextTiles]_vars

(***************************************************************************)
(* Properties of the materialisers.                                        *)
(***************************************************************************)
FiniteDone == tile_storage.status = "Ok" /\ layer.type = "Finite"

\* The document cell (x, y) holds a tile of the tileset being materialised.
HoldsOwnTile(x, y) ==
    /\ layer.cells[<< x, y >>] # << >>
    /\ layer.cells[<< x, y >>][1].tileset_index = tile_storage.tileset_index

\* C6: load_finite_tiles stores the tile of document cell (x, y) at
\* (x, map_height - 1 - y), for every in-bounds cell that holds a tile of the
\* tileset being materialised, and nothing else is stored: inverting the
\* storage row again gives the document row.
C6_FiniteRowsAreInverted ==
    FiniteDone
        => /\ \A x \in 0 .. layer.width - 1, y \in 0 .. layer.height - 1 :
                  HoldsOwnTile(x, y)
                      => /\ << x, layer.height - 1 - y >> \in DOMAIN tile_storage.tiles
                         /\ tile_storage.tiles[<< x, layer.height - 1 - y >>].position
                                = << x, layer.height - 1 - y >>
                         /\ tile_storage.tiles[<< x, layer.height - 1 - y >>].flip.x
                                = layer.cells[<< x, y >>][1].flip_h
           /\ \A p \in DOMAIN tile_storage.tiles :
                  /\ p[1] \in 0 .. layer.width - 1
                  /\ p[2] \in 0 .. layer.height - 1
                  /\ HoldsOwnTile(p[1], layer.height - 1 - p[2])

\* The 2x2 scenario: tile 3 of tileset 0, flipped horizontally, at document
\* (0,0) is stored at (0,1).
C6_Witness ==
    /\ FiniteDone
    /\ layer.width = 2 /\ layer.height = 2
    /\ tile_storage.tileset_index = 0
    /\ layer.cells[<< 0, 0 >>] = << TileA >>
    /\ layer.cells[<< 0, 1 >>] = << >>
    /\ << 0, 1 >> \in DOMAIN tile_storage.tiles
    /\ << 0, 0 >> \notin DOMAIN tile_storage.tiles
    /\ tile_storage.tiles[<< 0, 1 >>].texture_index = 3
    /\ tile_storage.tiles[<< 0, 1 >>].flip.x

InfiniteRan == tile_storage.status # NotRun /\ layer.type = "Infinite"

\* The smallest and the largest chunk coordinate present on an axis.
MinChunk(axis) ==
    CHOOSE v \in { p[axis] : p \in DOMAIN layer.chunks } :
        \A p \in DOMAIN layer.chunks : v <= p[axis]
MaxChunk(axis) ==
    CHOOSE v \in { p[axis] : p \in DOMAIN layer.chunks } :
        \A p \in DOMAIN layer.chunks : v >= p[axis]

\* C7: for every non-empty set of chunk coordinates the storage
\* load_infinite_tiles creates is (max_chunk - min_chunk + 1) * chunk_dim wide
\* and high, min and max taken over the chunk coordinates present.
C7_InfiniteStorageSpansTheChunks ==
    (InfiniteRan /\ DOMAIN layer.chunks # {})
        => tile_storage.size =
               << (MaxChunk(1) - MinChunk(1) + 1) * ChunkWidth,
                  (MaxChunk(2) - MinChunk(2) + 1) * ChunkHeight >>

\* C8: load_infinite_tiles stores the tile at local cell (x, y) of the chunk
\* with shifted coordinate (cx, cy) at (gx, H - 1 - gy), gx = cx*chunk_width
\* + x, gy = cy*chunk_height + y, H the computed storage height.
C8_InfiniteRowsAreInverted ==
    (tile_storage.status = "Ok" /\ layer.type = "Infinite")
        => \A chunk_pos \in DOMAIN layer.chunks :
               \A cell \in DOMAIN layer.chunks[chunk_pos] :
                   layer.chunks[chunk_pos][cell].tileset_index
                           = tile_storage.tileset_index
                       => LET shift == TopLeft(ChunkPositions(layer), << 0, 0 >>)
                              gx == (chunk_pos[1] - shift[1]) * ChunkWidth + cell[1]
                              gy == (chunk_pos[2] - shift[2]) * ChunkHeight + cell[2]
                              at == << gx, tile_storage.size[2] - 1 - gy >>
                          IN /\ at \in DOMAIN tile_storage.tiles
                             /\ tile_storage.tiles[at].position = at

\* C18: load_infinite_tiles shifts every chunk coordinate by the minimum
\* chunk coordinate present, so that on each axis some chunk has shifted
\* coordinate 0, and the origin it computes is -min_chunk * chunk_dim on
\* each axis.
C18_ChunksShiftedToOrigin ==
    (InfiniteRan /\ DOMAIN layer.chunks # {})
        => /\ tile_storage.chunks_mapped =
                  { << p[1] - MinChunk(1), p[2] - MinChunk(2) >> :
                        p \in DOMAIN layer.chunks }
           /\ \A axis \in 1 .. 2 :
                  \E mapped \in tile_storage.chunks_mapped : mapped[axis] = 0
           /\ tile_storage.origin =
                  << << (0 - MinChunk(1)) * ChunkWidth,
                        (0 - MinChunk(2)) * ChunkHeight >> >>

\* C19: every position load_finite_tiles or load_infinite_tiles writes into
\* a storage lies inside the grid the storage was created with: no set is
\* refused, and every tile stored has 0 <= x < width and 0 <= y < height.
C19_WrittenPositionsInsideGrid ==
    tile_storage.status # NotRun
        => /\ tile_storage.rejected = << >>
           /\ \A p \in DOMAIN tile_storage.tiles :
                  /\ tile_storage.tiles[p].position[1] >= 0
                  /\ tile_storage.tiles[p].position[1] < tile_storage.size[1]
                  /\ tile_storage.tiles[p].position[2] >= 0
                  /\ tile_storage.tiles[p].position[2] < tile_storage.size[2]

BothBuilt ==
    /\ DOMAIN storages = { 0, 1 }
    /\ storages[0].status = "Ok"
    /\ storages[1].status = "Ok"

\* The document cells of the layer that hold a tile of tileset ts: (x, y)
\* of a finite layer, (chunk position, local cell) of an infinite one.
CellsOf(ts) ==
    IF layer.type = "Finite"
    THEN { c \in DOMAIN layer.cells :
               layer.cells[c] # << >> /\ layer.cells[c][1].tileset_index = ts }
    ELSE { pc \in UNION { { << p, c >> : c \in DOMAIN layer.chunks[p] } :
                              p \in DOMAIN layer.chunks } :
               layer.chunks[pc[1]][pc[2]].tileset_index = ts }

\* C20: when a layer with tiles of two tilesets is materialised once per
\* tileset, the storage of a tileset holds one tile for each document cell
\* of that tileset and nothing else (for a finite layer at the cell's
\* inverted row), every tile stored carries the flips of a tile of that
\* tileset, and no position is occupied in both storages; empty cells are in
\* neither.
C20_EachCellInItsOwnStorage ==
    BothBuilt
        => /\ \A ts \in { 0, 1 } :
                  /\ Cardinality(DOMAIN storages[ts].tiles)
                         = Cardinality(CellsOf(ts))
                  /\ layer.type = "Finite"
                         => DOMAIN storages[ts].tiles =
                                { << c[1], layer.height - 1 - c[2] >> :
                                      c \in CellsOf(ts) }
                  /\ \A p \in DOMAIN storages[ts].tiles :
                         \E tile \in { TileA, TileB } :
                             /\ tile.tileset_index = ts
                             /\ storages[ts].tiles[p].flip =
                                    [x |-> tile.flip_h, y |-> tile.flip_v,
                                     d |-> tile.flip_d]
           /\ DOMAIN storages[0].tiles \cap DOMAIN storages[1].tiles = {}

\* A 2x2 layer with a tile of tileset 0, a tile of tileset 1 and an empty
\* cell has been materialised for both tilesets.
C20_Witness ==
    /\ BothBuilt
    /\ layer.type = "Finite" /\ layer.width = 2 /\ layer.height = 2
    /\ layer.cells[<< 0, 0 >>] = << TileA >>
    /\ layer.cells[<< 1, 0 >>] = << TileB >>
    /\ layer.cells[<< 0, 1 >>] = << >>
    /\ layer.cells[<< 1, 1 >>] = << >>
    /\ DOMAIN storages[0].tiles = { << 0, 1 >> }
    /\ DOMAIN storages[1].tiles = { << 1, 1 >> }

\* C11: materialising the same (layer, tileset) pair a second time ends as
\* the first time did and, when it returns a storage, returns one of the
\* same size with the same occupied positions and the same texture index
\* and flips at each, for finite and for infinite layers, in whatever order
\* the chunks come.
C11_MaterialisingTwiceGivesTheSame ==
    (tile_storage.status # NotRun /\ tile_storage.again)
        => LET first == storages[tile_storage.tileset_index]
           IN /\ tile_storage.status = first.status
              /\ tile_storage.status = "Ok"
                     => /\ tile_storage.size = first.size
                        /\ tile_storage.tiles = first.tiles

\* An infinite layer of two chunks, each with a tile of the tileset, has
\* been materialised a second time and a storage was returned.
C11_Witness ==
    /\ tile_storage.status = "Ok"
    /\ tile_storage.again
    /\ layer.type = "Infinite"
    /\ Cardinality(DOMAIN layer.chunks) = 2
    /\ \A p \in DOMAIN layer.chunks : layer.chunks[p] # EmptyMap
    /\ Cardinality(DOMAIN tile_storage.tiles) = 2

\* The source tiles of the layer, whatever cell they are in.
SourceTiles ==
    IF layer.type = "Finite"
    THEN { layer.cells[c][1] : c \in { d \in DOMAIN layer.cells :
                                           layer.cells[d] # << >> } }
    ELSE UNION { { layer.chunks[p][c] : c \in DOMAIN layer.chunks[p] } :
                     p \in DOMAIN layer.chunks }

\* The tile bundle `placed` carries the texture index and flips of `tile`.
CarriesTile(placed, tile) ==
    /\ tile.tileset_index = tile_storage.tileset_index
    /\ IF tiled_map.tilemap_textures[tile.tileset_index].kind = "Single"
       THEN placed.texture_index = tile.id
       ELSE /\ << tile.tileset_index, tile.id >>
                   \in DOMAIN tiled_map.tile_image_offsets
            /\ placed.texture_index =
                   tiled_map.tile_image_offsets[<< tile.tileset_index, tile.id >>]
    /\ placed.flip.x = tile.flip_h
    /\ placed.flip.y = tile.flip_v
    /\ placed.flip.d = tile.flip_d

\* C21: every placed tile carries the tile id as texture index when its
\* tileset is bound to a single image and the recorded offset of (tileset,
\* tile id) when it is bound to a vector of images, and the three flips of
\* its source tile: in a finite layer the source tile of the tile at (x, y)
\* is the one of document cell (x, height - 1 - y), in an infinite layer it
\* is a tile of the layer.
C21_PlacedTileCarriesIndexAndFlips ==
    tile_storage.status = "Ok"
        => \A p \in DOMAIN tile_storage.tiles :
               IF layer.type = "Finite"
               THEN LET cell == << p[1], layer.height - 1 - p[2] >> IN
                    /\ cell \in DOMAIN layer.cells
                    /\ layer.cells[cell] # << >>
                    /\ CarriesTile(tile_storage.tiles[p], layer.cells[cell][1])
               ELSE \E tile \in SourceTiles :
                        CarriesTile(tile_storage.tiles[p], tile)

\* An infinite layer's tile of the image collection (tile id 4, flipped
\* vertically and diagonally) was placed with vector offset 1.
C21_Witness ==
    /\ tile_storage.status = "Ok"
    /\ layer.type = "Infinite"
    /\ tile_storage.tileset_index = 1
    /\ tiled_map.tilemap_textures[1].kind = "Vector"
    /\ \E p \in DOMAIN tile_storage.tiles :
           /\ tile_storage.tiles[p].texture_index = 1
           /\ ~tile_storage.tiles[p].flip.x
           /\ tile_storage.tiles[p].flip.y
           /\ tile_storage.tiles[p].flip.d

\* C22: the offset lookup of the materialiser never fails: no call ends in
\* the abort of the failed lookup (the abort that rejects no position),
\* for every map asset the builder returns, tilesets with tiles that have no
\* image of their own included.
C22_OffsetLookupNeverFails ==
    tile_storage.status # NotRun
        => ~(tile_storage.status = "Panic" /\ tile_storage.rejected = << >>)

\* let map_size = TilemapSize { x: tiled_map.map.width, y: tiled_map.map.height }
\* and TilemapBundle { size: map_size, storage: tile_storage, .. }: the size
\* load_map attaches to the layer entity beside the storage.
BundleSize == << tiled_map.width, tiled_map.height >>

\* C33: the tilemap size attached to a layer entity is the size of the
\* TileStorage attached to it, for a finite layer and for an infinite layer,
\* whose storage size is computed from the chunk extents.
C33_TilemapSizeIsStorageSize ==
    tile_storage.status = "Ok" => BundleSize = tile_storage.size

(***************************************************************************)
(* SpecWorlds: two world entities side by side.  world_chunking and        *)
(* process_loaded_worlds loop over every world entity their query yields   *)
(* (src/src/world/mod.rs:73, 189); each world entity has its own           *)
(* TiledWorldStorage.  The worlds sit at the origin with                   *)
(* LayerPositioning::TiledOffset; world "a" has two maps and world "b"     *)
(* three, and both assets are loaded with their dependencies.              *)
(***************************************************************************)
Instances == { "a", "b" }

\* Live child map entities of all the world entities together.
MaxChildren == 3

\* TiledWorldCreated events sent to the world entities together.
MaxCreated == 3

\* A world entity: its asset's maps, TiledWorldChunking,
\* Changed<TiledWorldHandle>, RespawnTiledWorld, TiledWorldMarker and
\* TiledWorldStorage.spawned_maps.
InstanceInits(i) ==
    [maps : IF i = "a"
            THEN { << Rect(0, 0, 10, 10), Rect(20, 20, 30, 30) >> }
            ELSE { << Rect(0, 0, 10, 10), Rect(10, 0, 20, 10),
                      Rect(20, 20, 30, 30) >> },
     chunking : ChunkingSettings,
     handle_changed : { TRUE },
     respawn : { FALSE },
     marker : { FALSE },
     spawned_maps : { EmptyMap }]

\* What a pass has done so far: the world entities, the live child map
\* entities, the entities it despawned, the spawn commands it issued
\* (<< idx, entity >>), the TiledWorldCreated events it sent, and whether it
\* ran out of the entity ids of the model.
PassStart == [instances |-> instances, children |-> instance_children, despawned |-> {}, spawned |-> << >>, created |-> << >>, full |-> FALSE]

\* A remove_maps that takes the children of every world for its own.
RemoveMapsOfAll(i, insts, children) ==
    { c \in children :
        c.id \notin UNION { MapValues(insts[j].spawned_maps) : j \in DOMAIN insts } }

\* remove_maps(&mut commands, &mut world_storage) with the storage of world
\* entity i: the child map entities that stay alive.
RemoveMapsOf(i, insts, children) ==
    RemoveMapsLive(insts[i].spawned_maps, children)

\* One iteration of world_chunking's loop (lines 73-171), for world entity i.
ChunkingOne(i, st) ==
    LET inst == st.instances[i] IN
    IF st.full \/ ~inst.marker THEN st
    ELSE LET visible ==
                 IF inst.chunking = NoChunking THEN << >>
                 ELSE VisibleMaps(inst.maps, << 0, 0 >>,
                          ChangedCameraBoxes(CameraKinds, inst.chunking[1]), 0)
             to_spawn ==
                 IF inst.chunking # NoChunking
                 THEN ToSpawnChunking(visible, inst.spawned_maps)
                 ELSE IF DOMAIN inst.spawned_maps = {}
                 THEN ToSpawnNoChunking(inst.maps)
                 ELSE << >>
             to_remove ==
                 IF inst.chunking # NoChunking
                 THEN ToRemove(visible, inst.spawned_maps)
                 ELSE {}
             gone == { inst.spawned_maps[k] : k \in to_remove }
             kept == MapRemoveAll(inst.spawned_maps, to_remove)
             live == { c \in st.children : c.id \notin gone }
         IN IF Cardinality(live) + Len(to_spawn) > MaxChildren
            THEN [st EXCEPT !.full = TRUE]
            ELSE LET out == SpawnLoop(inst.maps, to_spawn, kept,
                                      { [id |-> c.id, idx |-> c.idx] : c \in live },
                                      << >>)
                     born == { [id |-> out.spawned[n][2], idx |-> out.spawned[n][1],
                                owner |-> i] : n \in 1 .. Len(out.spawned) }
                 IN [instances |-> [st.instances EXCEPT
                                        ![i].spawned_maps = out.storage],
                     children |-> live \cup born,
                     despawned |-> st.despawned \cup gone,
                     spawned |-> st.spawned \o out.spawned,
                     created |-> st.created,
                     full |-> FALSE]

\* One iteration of process_loaded_worlds' loop (lines 189-258), for world
\* entity i; the event of lines 251-256 carries the entity and the id of its
\* handle's asset.
ProcessOne(i, st) ==
    LET inst == st.instances[i] IN
    IF ~(inst.handle_changed \/ inst.respawn) THEN st
    ELSE [instances |-> [st.instances EXCEPT ![i].spawned_maps = EmptyMap,
                                             ![i].marker = TRUE,
                                             ![i].respawn = FALSE],
          children |-> RemoveMapsOf(i, st.instances, st.children),
          despawned |-> st.despawned \cup
                            (MapValues(inst.spawned_maps)
                                 \cap { c.id : c \in st.children }),
          spawned |-> st.spawned,
          created |-> Append(st.created,
                             [entity |-> i,
                              asset_id |-> IF i = "a" THEN 1 ELSE 2]),
          full |-> st.full]

RECURSIVE ChunkingLoop(_, _)
\* for (world_entity, ...) in world_query.iter_mut() { ... } of world_chunking
ChunkingLoop(order, st) ==
    IF order = << >> THEN st
    ELSE ChunkingLoop(Tail(order), ChunkingOne(Head(order), st))

RECURSIVE ProcessLoop(_, _)
\* for (world_entity, ...) in world_query.iter_mut() { ... } of
\* process_loaded_worlds
ProcessLoop(order, st) ==
    IF order = << >> THEN st
    ELSE ProcessLoop(Tail(order), ProcessOne(Head(order), st))

\* world_chunking over every world entity, in the order the query yields them.
WorldsChunking(order) ==
    LET out == ChunkingLoop(order, PassStart) IN
    /\ ~out.full
    /\ instances' = out.instances
    /\ instance_children' = out.children
    /\ cameras' = CamerasSeen
    /\ last_op' = "world_chunking"
    /\ last_commands' = [spawned |-> out.spawned, despawned |-> out.despawned,
                         created |-> << >>]
    /\ UNCHANGED << maps, chunking, layer_positioning, translation, global_translation, world_alive,
                    handle_changed, respawn, marker, load_state, asset_present, spawned_maps,
                    map_entities, created_events, panicked, tileVars,
                    loaderVars, mapVars >>

\* process_loaded_worlds over every world entity; the Changed flags of the
\* handles are seen once.
WorldsProcessLoaded(order) ==
    LET out == ProcessLoop(order, PassStart) IN
    /\ created_events + Len(out.created) <= MaxCreated
    /\ instances' = [i \in Instances |->
                        [out.instances[i] EXCEPT !.handle_changed = FALSE]]
    /\ instance_children' = out.children
    /\ last_op' = "process_loaded_worlds"
    /\ last_commands' = [spawned |-> << >>, despawned |-> out.despawned,
                         created |-> out.created]
    /\ created_events' = created_events + Len(out.created)
    /\ UNCHANGED cameras
    /\ UNCHANGED << maps, chunking, layer_positioning, translation, global_translation, world_alive,
                    handle_changed, respawn, marker, load_state, asset_present, spawned_maps,
                    map_entities, panicked, tileVars,
                    loaderVars, mapVars >>

\* handle_world_events for AssetEvent::Modified of the asset of world entity i.
WorldModified(i) ==
    /\ ~instances[i].respawn
    /\ instances' = [instances EXCEPT ![i].respawn = TRUE]
    /\ last_op' = "handle_world_events"
    /\ last_commands' = NoCommands
    /\ UNCHANGED << instance_children, cameras >>
    /\ UNCHANGED << maps, chunking, layer_positioning, translation, global_translation, world_alive,
                    handle_changed, respawn, marker, load_state, asset_present, spawned_maps,
                    map_entities, created_events, panicked, tileVars,
                    loaderVars, mapVars >>

InitWorlds ==
    /\ WorldIdle
    /\ TilesIdle
    /\ LoaderIdle
    /\ MapsIdle
    /\ \E a \in InstanceInits("a"), b \in InstanceInits("b") :
           instances = [i \in Instances |-> IF i = "a" THEN a ELSE b]
    /\ instance_children = {}

NextWorlds ==
    \/ (\E order \in { << "a", "b" >>, << "b", "a" >> } : WorldsChunking(order))
    \/ (\E order \in { << "a", "b" >>, << "b", "a" >> } :
            WorldsProcessLoaded(order))
    \/ (\E i \in Instances : WorldModified(i))
    \/ (\E p \in CameraPositions :
            SpawnCamera(p)
                /\ UNCHANGED << tileVars, loaderVars, instanceVars, mapVars >>)
    \/ (\E k \in BagToSet(cameras), p \in CameraPositions :
            MoveCamera(k, p)
                /\ UNCHANGED << tileVars, loaderVars, instanceVars, mapVars >>)
    \/ (\E k \in BagToSet(cameras) :
            DespawnCamera(k)
                /\ UNCHANGED << tileVars, loaderVars, instanceVars, mapVars >>)

SpecWorlds == InitWorlds /\ [][NextWorlds]_vars

\* The children recorded by world entity j, as live entities of j.
RecordedAlive(j, st) ==
    MapValues(instances[j].spawned_maps)
        \subseteq { c.id : c \in { d \in st.children : d.owner = j } }

\* C28: evaluating one world entity in world_chunking or in
\* process_loaded_worlds leaves the spawned_maps of every other world entity
\* as it is and despawns no child recorded there: in every reachable state
\* the children a world entity records are alive and its own, and one more
\* iteration of either loop for another world entity keeps it so.
C28_EvaluatingOneWorldLeavesTheOthers ==
    \A i \in Instances : \A j \in Instances \ { i } :
        /\ RecordedAlive(j, PassStart)
        /\ \A st \in { ChunkingOne(i, PassStart), ProcessOne(i, PassStart) } :
               /\ st.instances[j].spawned_maps = instances[j].spawned_maps
               /\ RecordedAlive(j, st)

\* A process_loaded_worlds pass has just despawned the children of one world
\* entity while the other world entity records a child.
C28_Witness ==
    /\ last_op = "process_loaded_worlds"
    /\ last_commands.despawned # {}
    /\ \E j \in Instances : DOMAIN instances[j].spawned_maps # {}

(***************************************************************************)
(* SpecMaps: process_loaded_maps, src/src/loader.rs:239-496, for two map   *)
(* entities with different assets.  One run of the system handles the      *)
(* events sent since its last run; the commands it issues are applied      *)
(* after the run, so its queries see the entities alive when it started.   *)
(* Tile entities are children of their layer entity (set_parent, lines     *)
(* 555 and 655) and are despawned with it, so the live layer entities      *)
(* stand for their tiles as well.                                          *)
(***************************************************************************)
MaxTilesets == 2
MaxLayers == 2
MaxLoads == 2

\* The asset id of the handle of the map entity the model follows.
MapAssetId == "map_asset"

\* The asset ids of the handles of the two map entities.
MapHandleIds == { MapAssetId, "other_map_asset" }

\* A TiledMap asset as load_map reads it: for each tileset whether
\* tilemap_textures has an entry for its index, and the layers' types in
\* document order (tiled::LayerType::Tiles, and Objects for the types that
\* are not tile layers).  present: Assets<TiledMap> holds the asset.
MapAssets ==
    [tilesets : UNION { [1 .. k -> BOOLEAN] : k \in 0 .. MaxTilesets },
     layers : UNION { [1 .. k -> { "Tiles", "Objects" }] :
                          k \in 0 .. MaxLayers },
     present : { TRUE }]

\* AssetEvent<TiledMap>::{Added, Modified, Removed} { id }
MapEvents ==
    [kind : { "Added", "Modified", "Removed" },
     id : MapHandleIds]

\* What map_events.read() yields in one run: one event, or two.
MapEventBatches == [{ 1 } -> MapEvents] \cup [{ 1, 2 } -> MapEvents]

\* commands.spawn(..).id(): an entity index that is not in use.
FreshLayerEntity(live) ==
    CHOOSE e \in 1 .. Cardinality(live) + 1 :
        /\ e \notin EntityIdsOf(live)
        /\ \A f \in 1 .. Cardinality(live) + 1 :
               f \notin EntityIdsOf(live) => e <= f

\* A layer test that takes every layer for a tile layer.
IsTilesLayerAlways(layer_type) == TRUE

\* let tiled::LayerType::Tiles(tile_layer) = layer.layer_type() else { continue }
IsTilesLayer(layer_type) == layer_type = "Tiles"

RECURSIVE LoadMapLayers(_, _, _, _, _)
\* for (layer_index, layer) in tiled_map.map.layers().enumerate() { ... },
\* lines 413-494, from layer_index on: acc is TiledLayersStorage.storage of
\* the map entity, its handle's asset id and the layer entities spawned and
\* not despawned so far.  An entity index is free once the despawn command
\* is applied, so the entities alive when the run started keep theirs.
LoadMapLayers(asset, tileset_index, layer_index, load, acc) ==
    IF layer_index >= Len(asset.layers) THEN acc
    ELSE IF ~IsTilesLayer(asset.layers[layer_index + 1])
    THEN LoadMapLayers(asset, tileset_index, layer_index + 1, load, acc)
    ELSE LET layer_entity == FreshLayerEntity(acc.live \cup layer_entities) IN
         LoadMapLayers(asset, tileset_index, layer_index + 1, load,
             [acc EXCEPT
                 !.storage = MapInsert(acc.storage, layer_index, layer_entity),
                 !.live = acc.live \cup
                     { [id |-> layer_entity, tileset_index |-> tileset_index,
                        layer_index |-> layer_index, load |-> load,
                        map_handle_id |-> acc.map_handle_id] }])

RECURSIVE LoadMapTilesets(_, _, _, _)
\* for (tileset_index, tileset) in tiled_map.map.tilesets().iter().enumerate(),
\* lines 396-495, from tileset_index on.
LoadMapTilesets(asset, tileset_index, load, acc) ==
    IF tileset_index >= Len(asset.tilesets) THEN acc
    ELSE IF ~asset.tilesets[tileset_index + 1]
    THEN LoadMapTilesets(asset, tileset_index + 1, load, acc)
    ELSE LoadMapTilesets(asset, tileset_index + 1, load,
                      LoadMapLayers(asset, tileset_index, 0, load, acc))

\* remove_layers, lines 327-341: despawn the values of the storage, clear it.
RemoveLayers(acc) ==
    [acc EXCEPT
        !.storage = EmptyMap,
        !.live = { e \in acc.live : e.id \notin MapValues(acc.storage) }]

\* maps.get(map_handle): the asset of the followed map entity is map_asset,
\* the other map's asset has one bound tileset and one tile layer.
MapAssetOf(id) ==
    IF id = MapAssetId THEN map_asset
    ELSE [tilesets |-> << TRUE >>, layers |-> << "Tiles" >>, present |-> TRUE]

\* load_map_by_asset_id, lines 343-373; one map entity has the handle id.
\* st: the storages of the map entities, the layer entities, the number of
\* load_map runs so far and what the system did last for the followed map.
LoadMapByAssetId(id, st) ==
    IF ~MapAssetOf(id).present THEN [st EXCEPT !.last = "process_loaded_maps"]
    ELSE LET out == LoadMapTilesets(MapAssetOf(id), 0, st.loads + 1,
                        RemoveLayers([storage |-> st.storage[id],
                                      live |-> st.live,
                                      map_handle_id |-> id]))
         IN [storage |-> [st.storage EXCEPT ![id] = out.storage],
             live |-> out.live,
             loads |-> st.loads + 1,
             last |-> IF id = MapAssetId THEN "load_map"
                      ELSE "process_loaded_maps"]

\* remove_map_by_asset_id, lines 289-325: remove_layers, then every entity
\* layer_query yields with a TiledMapLayer of the asset id.
RemoveMapByAssetId(id, st) ==
    LET out == RemoveLayers([storage |-> st.storage[id], live |-> st.live,
                             map_handle_id |-> id])
        swept == { e.id : e \in { f \in layer_entities : f.map_handle_id = id } }
    IN [storage |-> [st.storage EXCEPT ![id] = out.storage],
        live |-> { e \in out.live : e.id \notin swept },
        loads |-> st.loads,
        last |-> IF id = MapAssetId THEN "remove_map"
                 ELSE "process_loaded_maps"]

RECURSIVE EventsLoop(_, _)
\* for event in map_events.read() { match event { .. } }, lines 252-286.
EventsLoop(events, st) ==
    IF events = << >> THEN st
    ELSE EventsLoop(Tail(events),
             IF Head(events).kind = "Removed"
             THEN RemoveMapByAssetId(Head(events).id, st)
             ELSE LoadMapByAssetId(Head(events).id, st))

\* process_loaded_maps, lines 239-287, for the events of one run.
ProcessLoadedMaps(events) ==
    LET out == EventsLoop(events,
                   [storage |-> layer_storage, live |-> layer_entities,
                    loads |-> map_loads, last |-> "process_loaded_maps"])
    IN /\ out.loads <= MaxLoads
       /\ layer_storage' = out.storage
       /\ layer_entities' = out.live
       /\ map_loads' = out.loads
       /\ last_op' = out.last
       /\ UNCHANGED map_asset
       /\ UNCHANGED << maps, chunking, layer_positioning, translation, global_translation,
                       world_alive, handle_changed, respawn, marker, load_state, asset_present,
                       spawned_maps, map_entities, cameras, created_events,
                       panicked, last_commands, tileVars, loaderVars,
                       instanceVars >>

\* The asset server drops the asset from Assets<TiledMap> or loads it again.
MapAssetChanges ==
    /\ map_asset' = [map_asset EXCEPT !.present = ~map_asset.present]
    /\ last_op' = "asset_server"
    /\ UNCHANGED << layer_storage, layer_entities, map_loads >>
    /\ UNCHANGED << maps, chunking, layer_positioning, translation, global_translation, world_alive,
                    handle_changed, respawn, marker, load_state, asset_present, spawned_maps,
                    map_entities, cameras, created_events, panicked,
                    last_commands, tileVars, loaderVars, instanceVars >>

InitMaps ==
    /\ WorldIdle
    /\ TilesIdle
    /\ LoaderIdle
    /\ InstancesIdle
    /\ map_asset \in MapAssets
    /\ layer_storage = [id \in MapHandleIds |-> EmptyMap]
    /\ layer_entities = {}
    /\ map_loads = 0

NextMaps ==
    \/ (\E events \in MapEventBatches : ProcessLoadedMaps(events))
    \/ MapAssetChanges

SpecMaps == InitMaps /\ [][NextMaps]_vars

\* The layer entities whose TiledMapLayer has the asset id.
LayerEntitiesOf(id, entities) == { e \in entities : e.map_handle_id = id }

\* The document indices of the tile layers of the map asset.
TileLayerIndices ==
    { k \in 0 .. Len(map_asset.layers) - 1 : map_asset.layers[k + 1] = "Tiles" }

\* C29: after load_map has run for a map of which a tileset has a texture
\* binding, the keys of TiledLayersStorage are exactly the document indices
\* of the tile layers: a layer of another type has no layer entity and no
\* key, and the tile layers after it have theirs.
C29_StorageKeysAreTheTileLayers ==
    (/\ last_op = "load_map"
     /\ \E n \in DOMAIN map_asset.tilesets : map_asset.tilesets[n])
        => /\ DOMAIN layer_storage[MapAssetId] = TileLayerIndices
           /\ \A e \in LayerEntitiesOf(MapAssetId, layer_entities) :
                  e.load = map_loads => e.layer_index \in TileLayerIndices
           /\ \A k \in TileLayerIndices :
                  \E e \in LayerEntitiesOf(MapAssetId, layer_entities) :
                      /\ e.id = layer_storage[MapAssetId][k]
                      /\ e.layer_index = k
                      /\ e.load = map_loads

\* load_map has run for a map whose first layer is an object layer and whose
\* second layer is a tile layer, with a bound tileset.
C29_Witness ==
    /\ last_op = "load_map"
    /\ map_asset.layers = << "Objects", "Tiles" >>
    /\ \E n \in DOMAIN map_asset.tilesets : map_asset.tilesets[n]
    /\ DOMAIN layer_storage[MapAssetId] = { 1 }

\* C30: after a Modified or a repeated Added event has been processed, the
\* layer entities of the map are those of the newest load_map: every layer
\* entity an earlier load_map spawned is despawned.
C30_OnlyTheNewestBuildIsAlive ==
    last_op = "load_map"
        => \A e \in LayerEntitiesOf(MapAssetId, layer_entities) :
               e.load = map_loads

\* C31: after a Removed event for the asset id of a map has been processed,
\* no layer entity with that map_handle_id is left and the map entity's
\* TiledLayersStorage is empty; and a run that handles events of one asset id
\* only leaves the storage and the layer entities of the other map as they
\* were.
C31_RemovedLeavesNoLayerOfTheMap ==
    /\ [](last_op = "remove_map"
              => /\ layer_storage[MapAssetId] = EmptyMap
                 /\ LayerEntitiesOf(MapAssetId, layer_entities) = {})
    /\ [][\A id \in MapHandleIds :
            \A events \in { b \in MapEventBatches :
                                 \A n \in DOMAIN b : b[n].id = id } :
                ProcessLoadedMaps(events)
                    => \A other \in MapHandleIds \ { id } :
                           /\ layer_storage'[other] = layer_storage[other]
                           /\ LayerEntitiesOf(other, layer_entities')
                                  = LayerEntitiesOf(other, layer_entities)]_vars

=============================================================================
